---- MODULE Spec2Model ----
(***************************************************************************)
(* GoLox front end: the recursive descent parser of src/parser/parser.go   *)
(* over the tokens of src/token/token.go and the expression nodes of the   *)
(* expr package.  The parser is modelled as a machine with an explicit     *)
(* call stack: one frame per active Go function, one step per stretch of   *)
(* code between two calls or returns.                                      *)
(***************************************************************************)
EXTENDS FiniteSets, Integers, Sequences, TLC

-----------------------------------------------------------------------------
(* Token types: src/token/token.go, the const block.                       *)

LEFT_PAREN == "("
RIGHT_PAREN == ")"
LEFT_BRACE == "{"
RIGHT_BRACE == "}"
COMMA == ","
DOT == "."
MINUS == "-"
PLUS == "+"
SEMICOLON == ";"
SLASH == "/"
STAR == "*"
QUESTION == "?"
COLON == ":"
BANG == "!"
BANG_EQUAL == "!="
EQUAL == "="
EQUAL_EQUAL == "=="
GREATER == ">"
GREATER_EQUAL == ">="
LESS == "<"
LESS_EQUAL == "<="
IDENTIFIER == "IDENTIFIER"
STRING_ == "STRING"
NUMBER == "NUMBER"
AND == "AND"
CLASS == "CLASS"
ELSE_ == "ELSE"
FALSE_ == "FALSE"
FUN == "FUN"
FOR == "FOR"
IF_ == "IF"
NULL == "NULL"
OR == "OR"
PRINT == "PRINT"
RETURN == "RETURN"
SUPER == "SUPER"
THIS == "THIS"
TRUE_ == "TRUE"
VAR == "VAR"
WHILE == "WHILE"
ILLEGAL == "ILLEGAL"
EOF == "EOF"

TokenTypes ==
    { LEFT_PAREN, RIGHT_PAREN, LEFT_BRACE, RIGHT_BRACE, COMMA, DOT, MINUS,
      PLUS, SEMICOLON, SLASH, STAR, QUESTION, COLON, BANG, BANG_EQUAL, EQUAL,
      EQUAL_EQUAL, GREATER, GREATER_EQUAL, LESS, LESS_EQUAL, IDENTIFIER,
      STRING_, NUMBER, AND, CLASS, ELSE_, FALSE_, FUN, FOR, IF_, NULL, OR,
      PRINT, RETURN, SUPER, THIS, TRUE_, VAR, WHILE, ILLEGAL, EOF }

-----------------------------------------------------------------------------
(* Dynamic values carried by tokens and literal nodes (Go interface{}).    *)

NilValue == [kind |-> "Nil"]

BoolValue(b) == [kind |-> "Boolean", b |-> b]

NumberValue(n) == [kind |-> "Number", n |-> n]

StringValue(s) == [kind |-> "String", s |-> s]

(* token.Token.  A lexeme is a sequence of characters, each a string of     *)
(* length one.  Token(t, lit) is the struct literal {Type: t, Literal: lit} *)
(* of the parser tests: the fields it leaves out hold their zero values.    *)
Token(t, lit) == [Type |-> t, Lexeme |-> <<>>, Literal |-> lit, Line |-> 0, Column |-> 0]

-----------------------------------------------------------------------------
(* Expression nodes of package expr.  An Operator field is a *token.Token  *)
(* pointing into the parser's token slice: it is modelled by the slice     *)
(* index (0-based, as in Go) of the token it points to.                    *)

NilExpr == [node |-> "nil"]

Literal(v) == [node |-> "Literal", Value |-> v]

Grouping(e) == [node |-> "Grouping", Expression |-> e]

Unary(op, r) == [node |-> "Unary", Operator |-> op, Right |-> r]

Binary(l, op, r) == [node |-> "Binary", Left |-> l, Operator |-> op, Right |-> r]

Logical(l, operator, r) == [node |-> "Logical", Left |-> l, Operator |-> operator, Right |-> r]

Ternary(c, a, b) ==
    [node |-> "Ternary", Condition |-> c, TrueBranch |-> a, FalseBranch |-> b]

-----------------------------------------------------------------------------
(* Panic values.  error.Error carries the message and a pointer to the     *)
(* offending token (again a slice index); a failed slice access is a Go    *)
(* runtime error, which is not an *error.Error.                            *)

NoPanic == [kind |-> "none"]

ParseError(tok, message) == [kind |-> "ParseError", Message |-> message, Token |-> tok]

RuntimePanic == [kind |-> "runtime", Message |-> "index out of range"]

-----------------------------------------------------------------------------
(* Bounds of the model.                                                    *)

\* longest token slice enumerated exhaustively over Alphabet
MaxLen == 3

\* most operands in a chain of same-level binary operators
MaxOperands == 3

\* deepest nesting of parentheses / longest run of prefix operators
MaxDepth == 3

\* most operations (Parse, synchronize) invoked on one parser
MaxOps == 2

-----------------------------------------------------------------------------
(* State.                                                                  *)

VARIABLES
    tokens,     \* Parser.tokens
    current,    \* Parser.current: 0-based index of the next token
    stack,      \* Go call stack of the running operation, innermost last
    ret,        \* value returned by the call that returned last
    panicking,  \* the panic in flight / recovered in the current call
    status,     \* "none" (no parser), "idle", "running", "returned", "panicked", "crashed"
    result,     \* what Parse returned to its caller
    raised,     \* the panic that reached the caller of the operation
    op,         \* the operation invoked last: "Parse" or "synchronize"
    entry,      \* Parser.current when that operation was invoked
    ops         \* number of operations invoked so far

VARIABLES
    source,     \* Lexer.source, a sequence of characters
    Tokens,     \* Lexer.Tokens
    start,      \* Lexer.start
    l_current,  \* Lexer.current
    line,       \* Lexer.line
    l_status    \* "none" (no lexer), "scanning", "done"

VARIABLES
    subject,    \* the expression handed to AstPrinter.Print, pointers resolved
    printed,    \* the string Print returned, a sequence of characters
    p_status,   \* "idle", "given", "printed", "crashed"
    round,      \* 1 once the printed string has been handed to a new lexer
    value,      \* the value evaluate returned
    failure     \* the runtime error evaluate failed with

lexerVars == <<source, Tokens, start, l_current, line, l_status>>

replVars == <<subject, printed, p_status, round, value, failure>>

parserVars == <<tokens, current, stack, ret, panicking, status, result, raised, op, entry, ops>>

vars == <<tokens, current, stack, ret, panicking, status, result, raised, op, entry, ops,
          lexerVars, replVars>>

Frame(fn) == [fn |-> fn, pc |-> "start", expression |-> NilExpr, operator |-> -1]

Top == stack[Len(stack)]

At(fn) == status = "running" /\ stack # <<>> /\ Top.fn = fn

-----------------------------------------------------------------------------
(* Cursor primitives, parser.go:190-219.  peek and previous return         *)
(* pointers, i.e. indices; dereferencing an index outside the slice is a   *)
(* runtime panic, which every step checks for before it reads.             *)

InRange(i) == 0 <= i /\ i < Len(tokens)

TokenAt(i) == tokens[i + 1]

peek == current

previous_lagging == IF current > 1 THEN current - 2 ELSE current - 1

previous == current - 1

isAtEnd == TokenAt(peek).Type = EOF

check(t) == IF isAtEnd THEN FALSE ELSE TokenAt(peek).Type = t

advance_unguarded == current + 1

\* the cursor after advance()
advance == IF ~isAtEnd THEN current + 1 ELSE current

\* the boolean match() returns; when TRUE the step also advances
match(types) == \E t \in types : check(t)

parseError_runtime(t, message) == RuntimePanic

parseError(t, message) == ParseError(t, message)

-----------------------------------------------------------------------------
(* Calls, returns and panics.                                              *)

Call(f, callee) ==
    /\ stack' = Append([stack EXCEPT ![Len(stack)] = f], Frame(callee))
    /\ UNCHANGED <<ret, panicking, status, raised>>

Return(v) ==
    /\ stack' = SubSeq(stack, 1, Len(stack) - 1)
    /\ ret' = v
    /\ UNCHANGED <<panicking, status, raised>>

(* A panic unwinds every frame up to the one with a deferred function:     *)
(* only Parse has one.  Out of synchronize it reaches the caller.          *)
Throw(err) ==
    /\ panicking' = err
    /\ IF stack[1].fn = "Parse"
       THEN /\ stack' = <<[stack[1] EXCEPT !.pc = "recover"]>>
            /\ UNCHANGED <<status, raised>>
       ELSE /\ stack' = <<>>
            /\ status' = "crashed"
            /\ raised' = err
    /\ UNCHANGED ret

-----------------------------------------------------------------------------
(* The grammar functions, parser.go:54-164.                                *)

equalityTypes == {BANG_EQUAL, EQUAL_EQUAL}

comparisonTypes == {GREATER, GREATER_EQUAL, LESS, LESS_EQUAL}

termTypes == {MINUS, PLUS}

factorTypes_swapped == {MINUS, PLUS}

factorTypes == {SLASH, STAR}

unaryTypes == {BANG, MINUS}

rewrap_swapped(left, operator, right) == Binary(right, operator, left)

\* expression = &expr.Binary{Left: expression, Operator: operator, Right: right}
rewrap(left, operator, right) == Binary(left, operator, right)

\* the loop head of a binary level, entered with the frame f
Loop(f, types, next) ==
    IF ~InRange(peek)
    THEN Throw(RuntimePanic) /\ UNCHANGED current
    ELSE IF match(types)
    THEN /\ current' = advance
         /\ Call([f EXCEPT !.operator = previous', !.pc = "right"], next)
    ELSE Return(f.expression) /\ UNCHANGED current

BinaryLevel(types, next) ==
    /\ \/ /\ Top.pc = "start"
          /\ Call([Top EXCEPT !.pc = "left"], next)
          /\ UNCHANGED current
       \/ /\ Top.pc = "left"
          /\ Loop([Top EXCEPT !.expression = ret], types, next)
       \/ /\ Top.pc = "right"
          /\ Loop([Top EXCEPT !.expression = rewrap(Top.expression, Top.operator, ret)],
                  types, next)
    /\ UNCHANGED <<lexerVars, replVars, tokens, result, op, entry, ops>>

expression ==
    /\ At("expression")
    /\ \/ /\ Top.pc = "start"
          /\ Call([Top EXCEPT !.pc = "return"], "equality")
       \/ /\ Top.pc = "return"
          /\ Return(ret)
    /\ UNCHANGED <<lexerVars, replVars, tokens, current, result, op, entry, ops>>

equality ==
    /\ At("equality")
    /\ BinaryLevel(equalityTypes, "comparison")

comparison ==
    /\ At("comparison")
    /\ BinaryLevel(comparisonTypes, "term")

term ==
    /\ At("term")
    /\ BinaryLevel(termTypes, "factor")

factor ==
    /\ At("factor")
    /\ BinaryLevel(factorTypes, "unary")

unaryNode_dropped(operator, right) == right

\* return &expr.Unary{Operator: operator, Right: right}
unaryNode(operator, right) == Unary(operator, right)

unary ==
    /\ At("unary")
    /\ \/ /\ Top.pc = "start"
          /\ IF ~InRange(peek)
             THEN Throw(RuntimePanic) /\ UNCHANGED current
             ELSE IF match(unaryTypes)
             THEN /\ current' = advance
                  /\ Call([Top EXCEPT !.operator = previous', !.pc = "right"], "unary")
             ELSE /\ Call([Top EXCEPT !.pc = "primary"], "primary")
                  /\ UNCHANGED current
       \/ /\ Top.pc = "right"
          /\ Return(unaryNode(Top.operator, ret))
          /\ UNCHANGED current
       \/ /\ Top.pc = "primary"
          /\ Return(ret)
          /\ UNCHANGED current
    /\ UNCHANGED <<lexerVars, replVars, tokens, result, op, entry, ops>>

groupingNode_erased(inner) == inner

\* return &expr.Grouping{Expression: expression}
groupingNode(inner) == Grouping(inner)

expectExpression_previous == parseError(previous, "Expect expression.")

\* parseError(p.peek(), "Expect expression.")
expectExpression == parseError(peek, "Expect expression.")

consumeError_generic(message) == parseError(peek, "Expect expression.")

\* consume: parseError(p.peek(), message)
consumeError(message) == parseError(peek, message)

primary ==
    /\ At("primary")
    /\ \/ /\ Top.pc = "start"
          /\ IF ~InRange(peek)
             THEN Throw(RuntimePanic) /\ UNCHANGED current
             ELSE IF match({FALSE_})
             THEN current' = advance /\ Return(Literal(BoolValue(FALSE)))
             ELSE IF match({TRUE_})
             THEN current' = advance /\ Return(Literal(BoolValue(TRUE)))
             ELSE IF match({NULL})
             THEN current' = advance /\ Return(Literal(NilValue))
             ELSE IF match({NUMBER, STRING_})
             THEN current' = advance /\ Return(Literal(TokenAt(previous').Literal))
             ELSE IF match({LEFT_PAREN})
             THEN current' = advance /\ Call([Top EXCEPT !.pc = "group"], "expression")
             ELSE Throw(expectExpression) /\ UNCHANGED current
       \/ /\ Top.pc = "group"
          /\ IF ~InRange(peek)
             THEN Throw(RuntimePanic) /\ UNCHANGED current
             ELSE IF check(RIGHT_PAREN)
             THEN current' = advance /\ Return(groupingNode(ret))
             ELSE /\ Throw(consumeError("Expect ')' after expression."))
                  /\ UNCHANGED current
    /\ UNCHANGED <<lexerVars, replVars, tokens, result, op, entry, ops>>

-----------------------------------------------------------------------------
(* Parse, parser.go:41-51: the deferred function re-panics a recovered     *)
(* *error.Error and nothing else.                                          *)

recovered_swallowed(r) == FALSE

\* if err, ok := r.(*error.Error); ok
recovered(r) == r.kind = "ParseError"

Parse ==
    \/ /\ status \in {"idle", "returned", "panicked", "crashed"}
       /\ ops < MaxOps
       /\ stack' = <<[Frame("Parse") EXCEPT !.pc = "return"], Frame("expression")>>
       /\ status' = "running"
       /\ op' = "Parse"
       /\ entry' = current
       /\ ops' = ops + 1
       /\ ret' = NilExpr
       /\ result' = NilExpr
       /\ panicking' = NoPanic
       /\ raised' = NoPanic
       /\ UNCHANGED <<lexerVars, replVars, tokens, current>>
    \/ /\ At("Parse")
       /\ Top.pc = "return"
       /\ stack' = <<>>
       /\ status' = "returned"
       /\ result' = ret
       /\ UNCHANGED <<lexerVars, replVars, tokens, current, ret, panicking, raised, op, entry, ops>>
    \/ /\ At("Parse")
       /\ Top.pc = "recover"
       /\ stack' = <<>>
       /\ IF recovered(panicking)
          THEN status' = "panicked" /\ raised' = panicking
          ELSE status' = "returned" /\ UNCHANGED raised
       /\ UNCHANGED <<lexerVars, replVars, tokens, current, ret, panicking, result, op, entry, ops>>

-----------------------------------------------------------------------------
(* synchronize, parser.go:227-242.                                         *)

boundaryKeywords_short == {CLASS, FUN, VAR, FOR, IF_, WHILE, PRINT}

boundaryKeywords == {CLASS, FUN, VAR, FOR, IF_, WHILE, PRINT, RETURN}

synchronize ==
    \/ /\ status \in {"idle", "returned", "panicked", "crashed"}
       /\ ops < MaxOps
       /\ stack' = <<Frame("synchronize")>>
       /\ status' = "running"
       /\ op' = "synchronize"
       /\ entry' = current
       /\ ops' = ops + 1
       /\ panicking' = NoPanic
       /\ raised' = NoPanic
       /\ UNCHANGED <<lexerVars, replVars, tokens, current, ret, result>>
    \/ /\ At("synchronize")
       /\ Top.pc = "start"
       /\ IF ~InRange(peek)
          THEN Throw(RuntimePanic) /\ UNCHANGED current
          ELSE /\ current' = advance
               /\ IF ~InRange(previous')
                  THEN Throw(RuntimePanic)
                  ELSE /\ stack' = <<[Top EXCEPT !.pc = "loop"]>>
                       /\ UNCHANGED <<ret, panicking, status, raised>>
       /\ UNCHANGED <<lexerVars, replVars, tokens, result, op, entry, ops>>
    \/ /\ At("synchronize")
       /\ Top.pc = "loop"
       /\ IF ~InRange(peek)
          THEN Throw(RuntimePanic) /\ UNCHANGED current
          ELSE IF \/ isAtEnd
                  \/ TokenAt(previous).Type = SEMICOLON
                  \/ TokenAt(peek).Type \in boundaryKeywords
          THEN /\ stack' = <<>>
               /\ status' = "returned"
               /\ UNCHANGED <<current, ret, panicking, raised>>
          ELSE /\ current' = advance
               /\ UNCHANGED <<stack, ret, panicking, status, raised>>
       /\ UNCHANGED <<lexerVars, replVars, tokens, result, op, entry, ops>>

(* The caller of New keeps the slice it passed: New stores the slice       *)
(* header, not a copy, and previous() hands out pointers into it.  Modify  *)
(* is the caller writing a new lexeme into one element after a Parse has   *)
(* returned.                                                               *)
Modify ==
    /\ status = "returned"
    /\ op = "Parse"
    /\ ops < MaxOps
    /\ \E i \in 1..Len(tokens) :
          tokens' = [tokens EXCEPT ![i].Lexeme = <<"#">>]
    /\ op' = "Modify"
    /\ ops' = ops + 1
    /\ UNCHANGED <<lexerVars, replVars, current, stack, ret, panicking, status, result,
                   raised, entry>>

-----------------------------------------------------------------------------
(* The lexer.  The source is a sequence of characters; the cursor helpers  *)
(* take the cursor as a parameter so that the loops of one scanToken call  *)
(* can be followed inside one step.  Names the parser already uses carry   *)
(* the prefix l_.                                                          *)

\* the rune peek and peekNext return at the end of the source
NUL == "NUL"

Digits == {"0", "1", "2", "3", "4", "5", "6", "7", "8", "9"}

LowerCase == {"a", "b", "c", "d", "e", "f", "g", "h", "i", "j", "k", "l", "m",
              "n", "o", "p", "q", "r", "s", "t", "u", "v", "w", "x", "y", "z"}

UpperCase == {"A", "B", "C", "D", "E", "F", "G", "H", "I", "J", "K", "L", "M",
              "N", "O", "P", "Q", "R", "S", "T", "U", "V", "W", "X", "Y", "Z"}

isDigit(c) == c \in Digits

isAlpha(c) == c \in LowerCase \/ c \in UpperCase \/ c = "_"

isAlphaNumeric(c) == isAlpha(c) \/ isDigit(c)

l_isAtEnd(cur) == cur >= Len(source)

l_peek(cur) == IF l_isAtEnd(cur) THEN NUL ELSE source[cur + 1]

peekNext(cur) == IF cur + 1 >= Len(source) THEN NUL ELSE source[cur + 2]

\* match: TRUE when the character at the cursor is the expected one
l_match(expected, cur) == ~l_isAtEnd(cur) /\ source[cur + 1] = expected

matchToken_single(expected, matchType, defaultType, cur) == defaultType

matchToken(expected, matchType, defaultType, cur) ==
    IF l_match(expected, cur) THEN matchType ELSE defaultType

\* source[from:to]
Slice(from, to) == SubSeq(source, from + 1, to)

\* the line++ statements of a loop that advanced the cursor from from to to
Newlines(from, to) == Cardinality({ i \in (from + 1)..to : source[i] = "\n" })

Keywords ==
    [ text \in { <<"a","n","d">>, <<"c","l","a","s","s">>, <<"e","l","s","e">>,
                 <<"f","a","l","s","e">>, <<"f","u","n">>, <<"f","o","r">>,
                 <<"i","f">>, <<"n","u","l","l">>, <<"o","r">>,
                 <<"p","r","i","n","t">>, <<"r","e","t","u","r","n">>,
                 <<"s","u","p","e","r">>, <<"t","h","i","s">>, <<"t","r","u","e">>,
                 <<"v","a","r">>, <<"w","h","i","l","e">> } |->
        CASE text = <<"a","n","d">> -> AND
          [] text = <<"c","l","a","s","s">> -> CLASS
          [] text = <<"e","l","s","e">> -> ELSE_
          [] text = <<"f","a","l","s","e">> -> FALSE_
          [] text = <<"f","u","n">> -> FUN
          [] text = <<"f","o","r">> -> FOR
          [] text = <<"i","f">> -> IF_
          [] text = <<"n","u","l","l">> -> NULL
          [] text = <<"o","r">> -> OR
          [] text = <<"p","r","i","n","t">> -> PRINT
          [] text = <<"r","e","t","u","r","n">> -> RETURN
          [] text = <<"s","u","p","e","r">> -> SUPER
          [] text = <<"t","h","i","s">> -> THIS
          [] text = <<"t","r","u","e">> -> TRUE_
          [] text = <<"v","a","r">> -> VAR
          [] text = <<"w","h","i","l","e">> -> WHILE ]

\* the cases of scanToken that add one token for one character
singleCharTokens ==
    [ c \in {"(", ")", "{", "}", ",", ".", "-", "+", ";", "*"} |->
        CASE c = "(" -> LEFT_PAREN
          [] c = ")" -> RIGHT_PAREN
          [] c = "{" -> LEFT_BRACE
          [] c = "}" -> RIGHT_BRACE
          [] c = "," -> COMMA
          [] c = "." -> DOT
          [] c = "-" -> MINUS
          [] c = "+" -> PLUS
          [] c = ";" -> SEMICOLON
          [] c = "*" -> STAR ]

\* the cases of scanToken that look one character ahead
twoCharTokens ==
    [ c \in {"!", "=", "<", ">"} |->
        CASE c = "!" -> <<BANG_EQUAL, BANG>>
          [] c = "=" -> <<EQUAL_EQUAL, EQUAL>>
          [] c = "<" -> <<LESS_EQUAL, LESS>>
          [] c = ">" -> <<GREATER_EQUAL, GREATER>> ]

(* strconv.ParseFloat on the text processNumber hands it: digits with an   *)
(* optional fraction.  The float64 is kept as the decimal n / 10^e with    *)
(* the trailing zeros of the fraction dropped (e = 0 for an integer),      *)
(* which is exact for the texts within the bounds.                         *)
DigitValue(c) ==
    CASE c = "0" -> 0 [] c = "1" -> 1 [] c = "2" -> 2 [] c = "3" -> 3 [] c = "4" -> 4
      [] c = "5" -> 5 [] c = "6" -> 6 [] c = "7" -> 7 [] c = "8" -> 8 [] c = "9" -> 9

RECURSIVE ParseDigits(_)
ParseDigits(text) ==
    IF text = <<>> THEN 0
    ELSE 10 * ParseDigits(SubSeq(text, 1, Len(text) - 1)) + DigitValue(text[Len(text)])

RECURSIVE TrimZeros(_)
TrimZeros(text) ==
    IF text # <<>> /\ text[Len(text)] = "0"
    THEN TrimZeros(SubSeq(text, 1, Len(text) - 1))
    ELSE text

DecimalValue(n, e) ==
    IF e = 0 THEN NumberValue(n) ELSE [kind |-> "Number", n |-> n, e |-> e]

\* the number of digits of the largest float64, 1.797...e308
Float64Digits == 309

(* The error of strconv.ParseFloat: the text is well formed, so the only   *)
(* error is a value out of the range of float64, which a whole part of     *)
(* more than Float64Digits significant digits always is.  (A whole part of *)
(* exactly that many digits can be out of range too; no input has one.)    *)
ErrRange(text) ==
    LET dots == { i \in 1..Len(text) : text[i] = "." }
        dot == IF dots = {} THEN Len(text) + 1 ELSE CHOOSE i \in dots : TRUE
        significant == { i \in 1..(dot - 1) : \E j \in 1..i : text[j] # "0" }
    IN Cardinality(significant) > Float64Digits

ParseFloat_whole(text) ==
    LET dots == { i \in 1..Len(text) : text[i] = "." }
        dot == IF dots = {} THEN Len(text) + 1 ELSE CHOOSE i \in dots : TRUE
    IN NumberValue(ParseDigits(SubSeq(text, 1, dot - 1)))

ParseFloat(text) ==
    LET dots == { i \in 1..Len(text) : text[i] = "." }
        dot == IF dots = {} THEN Len(text) + 1 ELSE CHOOSE i \in dots : TRUE
        whole == SubSeq(text, 1, dot - 1)
        fraction == TrimZeros(SubSeq(text, dot + 1, Len(text)))
    IN DecimalValue(ParseDigits(whole \o fraction), Len(fraction))

addToken_whole(tokenType, literal) ==
    Tokens' = Append(Tokens, [Type |-> tokenType,
                              Lexeme |-> Slice(0, l_current'),
                              Literal |-> literal,
                              Line |-> line',
                              Column |-> 0])

\* addToken, called when the cursor, the start and the line have been set
addToken(tokenType, literal) ==
    Tokens' = Append(Tokens, [Type |-> tokenType,
                              Lexeme |-> Slice(start', l_current'),
                              Literal |-> literal,
                              Line |-> line',
                              Column |-> 0])

addIllegalToken == addToken(ILLEGAL, NilValue)

\* the loops of the helpers: the cursor at which each one stops
\* where the loop  for l.isDigit(l.peek()) { l.advance() }  leaves the cursor
digitsEnd(cur) ==
    LET stops == { end \in cur..Len(source) : ~isDigit(l_peek(end)) }
    IN CHOOSE end \in stops : \A other \in stops : end <= other

RECURSIVE identifierEnd(_)
identifierEnd(cur) == IF isAlphaNumeric(l_peek(cur)) THEN identifierEnd(cur + 1) ELSE cur

RECURSIVE stringEnd(_)
stringEnd(cur) ==
    IF l_peek(cur) # "\"" /\ ~l_isAtEnd(cur) THEN stringEnd(cur + 1) ELSE cur

RECURSIVE blockCommentEnd(_)
blockCommentEnd(cur) ==
    IF ~(l_peek(cur) = "*" /\ peekNext(cur) = "/") /\ ~l_isAtEnd(cur)
    THEN blockCommentEnd(cur + 1)
    ELSE cur

RECURSIVE lineCommentEnd(_)
lineCommentEnd(cur) ==
    IF l_peek(cur) # "\n" /\ ~l_isAtEnd(cur) THEN lineCommentEnd(cur + 1) ELSE cur

processString(cur) ==
    LET end == stringEnd(cur)
    IN /\ line' = line + Newlines(cur, end)
       /\ IF l_isAtEnd(end)
          THEN /\ l_current' = end
               /\ addIllegalToken
          ELSE /\ l_current' = end + 1
               /\ addToken(STRING_, StringValue(Slice(start' + 1, l_current' - 1)))

processNumber(cur) ==
    LET whole == digitsEnd(cur)
        end == IF l_peek(whole) = "." /\ isDigit(peekNext(whole))
               THEN digitsEnd(whole + 1)
               ELSE whole
    IN /\ l_current' = end
       /\ line' = line
       /\ \E val \in {Slice(start', l_current')} :
             IF ErrRange(val)
             THEN addIllegalToken
             ELSE addToken(NUMBER, ParseFloat(val))

processIdentifier_all(cur) ==
    LET end == identifierEnd(cur)
    IN /\ l_current' = end
       /\ line' = line
       /\ addToken(IDENTIFIER, NilValue)

processIdentifier(cur) ==
    LET end == identifierEnd(cur)
        text == Slice(start', end)
    IN /\ l_current' = end
       /\ line' = line
       /\ addToken(IF text \in DOMAIN Keywords THEN Keywords[text] ELSE IDENTIFIER, NilValue)

blockComment_flat(cur) ==
    LET end == blockCommentEnd(cur)
    IN /\ line' = line
       /\ IF ~l_isAtEnd(end)
          THEN /\ l_current' = end + 2
               /\ UNCHANGED Tokens
          ELSE /\ l_current' = end
               /\ addIllegalToken

blockComment(cur) ==
    LET end == blockCommentEnd(cur)
    IN /\ line' = line + Newlines(cur, end)
       /\ IF ~l_isAtEnd(end)
          THEN /\ l_current' = end + 2
               /\ UNCHANGED Tokens
          ELSE /\ l_current' = end
               /\ addIllegalToken

lineComment(cur) ==
    /\ l_current' = lineCommentEnd(cur)
    /\ line' = line
    /\ UNCHANGED Tokens

\* one turn of the loop of ScanTokens: start = current, then scanToken
scanToken ==
    /\ l_status = "scanning"
    /\ ~l_isAtEnd(l_current)
    /\ start' = l_current
    /\ LET c == source[l_current + 1]
           cur == l_current + 1
       IN CASE c \in DOMAIN singleCharTokens ->
                 /\ l_current' = cur
                 /\ line' = line
                 /\ addToken(singleCharTokens[c], NilValue)
            [] c \in {" ", "\r", "\t"} ->
                 /\ l_current' = cur
                 /\ line' = line
                 /\ UNCHANGED Tokens
            [] c = "\n" ->
                 /\ l_current' = cur
                 /\ line' = line + 1
                 /\ UNCHANGED Tokens
            [] c = "/" ->
                 IF l_match("/", cur) THEN lineComment(cur + 1)
                 ELSE IF l_match("*", cur) THEN blockComment(cur + 1)
                 ELSE /\ l_current' = cur
                      /\ line' = line
                      /\ addToken(SLASH, NilValue)
            [] c \in DOMAIN twoCharTokens ->
                 /\ l_current' = IF l_match("=", cur) THEN cur + 1 ELSE cur
                 /\ line' = line
                 /\ addToken(matchToken("=", twoCharTokens[c][1], twoCharTokens[c][2], cur),
                             NilValue)
            [] c = "\"" -> processString(cur)
            [] OTHER ->
                 IF isDigit(c) THEN processNumber(cur)
                 ELSE IF isAlpha(c) THEN processIdentifier(cur)
                 ELSE /\ l_current' = cur
                      /\ line' = line
                      /\ addIllegalToken
    /\ UNCHANGED <<source, l_status, parserVars, replVars>>

eofToken_illegal ==
    [Type |-> ILLEGAL, Lexeme |-> <<>>, Literal |-> NilValue, Line |-> line, Column |-> 0]

\* the token ScanTokens appends when its loop has ended
eofToken ==
    [Type |-> EOF, Lexeme |-> <<>>, Literal |-> NilValue, Line |-> line, Column |-> 0]

\* ScanTokens, from the end of its loop
ScanTokens ==
    /\ l_status = "scanning"
    /\ l_isAtEnd(l_current)
    /\ Tokens' = Append(Tokens, eofToken)
    /\ l_status' = "done"
    /\ UNCHANGED <<source, start, l_current, line, parserVars, replVars>>

\* parser.New(l.Tokens), as the REPL calls it once the lexer is done
New ==
    /\ l_status = "done"
    /\ status = "none"
    /\ tokens' = Tokens
    /\ current' = 0
    /\ status' = "idle"
    /\ UNCHANGED <<stack, ret, panicking, result, raised, op, entry, ops, lexerVars, replVars>>

-----------------------------------------------------------------------------
(* The printer.  It follows the Operator pointers of the tree it is given: *)
(* Resolve replaces each pointer into the parser's token slice by the      *)
(* token it points to at the time of the call.                             *)

RECURSIVE Resolve(_)
Resolve(e) ==
    CASE e = NilExpr -> NilExpr
      [] e.node = "Literal" -> e
      [] e.node = "Grouping" -> Grouping(Resolve(e.Expression))
      [] e.node = "Unary" -> Unary(TokenAt(e.Operator), Resolve(e.Right))
      [] e.node = "Binary" -> Binary(Resolve(e.Left), TokenAt(e.Operator), Resolve(e.Right))

Chars(n) ==
    CASE n = 0 -> "0" [] n = 1 -> "1" [] n = 2 -> "2" [] n = 3 -> "3" [] n = 4 -> "4"
      [] n = 5 -> "5" [] n = 6 -> "6" [] n = 7 -> "7" [] n = 8 -> "8" [] n = 9 -> "9"

\* the decimal digits of a natural number, most significant first
RECURSIVE FormatNat(_)
FormatNat(n) == IF n < 10 THEN <<Chars(n)>> ELSE FormatNat(n \div 10) \o <<Chars(n % 10)>>

Zeros(k) == [i \in 1..k |-> "0"]

(* fmt's %v of a float64 n / 10^e: the shortest digits, in the form %e     *)
(* when the decimal exponent is below -4 or at least 6, else in the form   *)
(* %f.                                                                     *)
FormatFloat(n, e) ==
    LET all == FormatNat(n)
        digs == TrimZeros(all)
        nd == Len(digs)
        dp == Len(all) - e
        exp == dp - 1
        abs == IF exp < 0 THEN 0 - exp ELSE exp
    IN IF n = 0 THEN <<"0">>
       ELSE IF exp < 0 - 4 \/ exp >= 6
       THEN <<digs[1]>>
            \o (IF nd > 1 THEN <<".">> \o SubSeq(digs, 2, nd) ELSE <<>>)
            \o <<"e", IF exp < 0 THEN "-" ELSE "+">>
            \o (IF abs < 10 THEN <<"0">> ELSE <<>>) \o FormatNat(abs)
       ELSE IF dp <= 0 THEN <<"0", ".">> \o Zeros(0 - dp) \o digs
       ELSE IF nd <= dp THEN digs \o Zeros(dp - nd)
       ELSE SubSeq(digs, 1, dp) \o <<".">> \o SubSeq(digs, dp + 1, nd)

\* fmt.Sprintf("%v", value)
Sprintf(v) ==
    CASE v.kind = "Boolean" ->
           IF v.b THEN <<"t", "r", "u", "e">> ELSE <<"f", "a", "l", "s", "e">>
      [] v.kind = "Number" ->
           FormatFloat(v.n, IF "e" \in DOMAIN v THEN v.e ELSE 0)
      [] v.kind = "String" -> v.s

RECURSIVE Accept(_)

\* the loop of parenthesize: a space and the rendering of each part
RECURSIVE parts_(_)
parts_(parts) ==
    IF parts = <<>> THEN <<>>
    ELSE <<" ">> \o (IF Head(parts) = NilExpr THEN <<>> ELSE Accept(Head(parts)))
         \o parts_(Tail(parts))

parenthesize_bare(name, parts) == name \o parts_(parts)

parenthesize(name, parts) == <<"(">> \o name \o parts_(parts) \o <<")">>

VisitBinaryExpr(e) == parenthesize(e.Operator.Lexeme, <<e.Left, e.Right>>)

VisitGroupingExpr(e) == parenthesize(<<"g", "r", "o", "u", "p">>, <<e.Expression>>)

VisitLiteralExpr_null(e) ==
    IF e.Value = NilValue THEN <<"n", "u", "l", "l">> ELSE Sprintf(e.Value)

VisitLiteralExpr(e) == IF e.Value = NilValue THEN <<"n", "i", "l">> ELSE Sprintf(e.Value)

VisitUnaryExpr(e) == parenthesize(e.Operator.Lexeme, <<e.Right>>)

VisitLogicalExpr(e) == parenthesize(e.Operator.Lexeme, <<e.Left, e.Right>>)

Accept(e) ==
    CASE e.node = "Binary" -> VisitBinaryExpr(e)
      [] e.node = "Grouping" -> VisitGroupingExpr(e)
      [] e.node = "Literal" -> VisitLiteralExpr(e)
      [] e.node = "Unary" -> VisitUnaryExpr(e)
      [] e.node = "Logical" -> VisitLogicalExpr(e)

(* AstPrinter.Print: on the expression a first Parse returned, as the REPL *)
(* calls it, or on a tree built by hand, as the printer tests call it.     *)
(* Parse returns the nil expression when it swallowed a failure; Accept on *)
(* it is a nil dereference.                                                *)
PrintExpr ==
    /\ \/ /\ p_status = "idle"
          /\ op = "Parse"
          /\ ops = 1
          /\ status = "returned"
          /\ subject' = Resolve(result)
       \/ /\ p_status = "given"
          /\ subject' = subject
    /\ IF subject' = NilExpr
       THEN /\ p_status' = "crashed"
            /\ printed' = printed
       ELSE /\ p_status' = "printed"
            /\ printed' = Accept(subject')
    /\ UNCHANGED <<round, value, failure, parserVars, lexerVars>>

(* lexer.New on the string Print returned for the tree of a scanned        *)
(* source: the first step of reading a rendering back.  The parser that    *)
(* produced the tree is dropped; its tree is kept in subject.              *)
Rescan ==
    /\ p_status = "printed"
    /\ round = 0
    /\ l_status = "done"
    /\ op = "Parse"
    /\ ops = 1
    /\ status = "returned"
    /\ round' = 1
    /\ source' = printed
    /\ Tokens' = <<>>
    /\ start' = 0
    /\ l_current' = 0
    /\ line' = 1
    /\ l_status' = "scanning"
    /\ tokens' = <<>>
    /\ current' = 0
    /\ stack' = <<>>
    /\ ret' = NilExpr
    /\ panicking' = NoPanic
    /\ status' = "none"
    /\ result' = NilExpr
    /\ raised' = NoPanic
    /\ op' = "none"
    /\ entry' = 0
    /\ ops' = 0
    /\ value' = [kind |-> "none"]
    /\ failure' = [kind |-> "none"]
    /\ UNCHANGED <<subject, printed, p_status>>

-----------------------------------------------------------------------------
(* The evaluator: evaluate(Expr), a recursive descent over the tree that   *)
(* returns a value or fails with a runtime type error.  A number is the    *)
(* fraction num / den in lowest terms with den >= 0; den = 0 stands for    *)
(* +Infinity (num = 1), -Infinity (num = -1) and NaN (num = 0).  Rounding  *)
(* and the sign of zero are not followed.                                  *)

NoValue == [kind |-> "none"]

NoFailure == [kind |-> "none"]

RuntimeError(operator, operand) ==
    [kind |-> "RuntimeError", Operator |-> operator, Value |-> operand]

Failed(v) == v.kind = "RuntimeError"

RECURSIVE Pow10(_)
Pow10(k) == IF k = 0 THEN 1 ELSE 10 * Pow10(k - 1)

Abs(i) == IF i < 0 THEN 0 - i ELSE i

Sign(i) == IF i < 0 THEN 0 - 1 ELSE IF i > 0 THEN 1 ELSE 0

RECURSIVE Gcd(_, _)
Gcd(a, b) == IF b = 0 THEN a ELSE Gcd(b, a % b)

\* the largest decimal scale a result is written with
MaxScale == 6

Fraction(num, den) == [kind |-> "Number", n |-> num, d |-> den]

\* the value of the fraction num / den, den >= 0
Canon(num, den) ==
    IF den = 0 THEN Fraction(Sign(num), 0)
    ELSE LET g == Gcd(Abs(num), den)
             n == num \div g
             d == den \div g
             scales == { k \in 0..MaxScale : Pow10(k) % d = 0 }
         IN IF scales = {} THEN Fraction(n, d)
            ELSE LET k == CHOOSE s \in scales : \A t \in scales : s <= t
                 IN DecimalValue(n * (Pow10(k) \div d), k)

Numerator(v) == v.n

Denominator(v) ==
    IF "d" \in DOMAIN v THEN v.d ELSE IF "e" \in DOMAIN v THEN Pow10(v.e) ELSE 1

IsNaN(v) == Numerator(v) = 0 /\ Denominator(v) = 0

IsInfinite(v) == Numerator(v) # 0 /\ Denominator(v) = 0

isNumber(v) == v.kind = "Number"

isString(v) == v.kind = "String"

Add(l, r) ==
    IF IsInfinite(l) /\ IsInfinite(r) /\ Numerator(l) = Numerator(r) THEN l
    ELSE Canon(Numerator(l) * Denominator(r) + Numerator(r) * Denominator(l),
               Denominator(l) * Denominator(r))

Negate(v) == Canon(0 - Numerator(v), Denominator(v))

Multiply(l, r) == Canon(Numerator(l) * Numerator(r), Denominator(l) * Denominator(r))

Divide(l, r) ==
    LET num == Numerator(l) * Denominator(r)
        den == Denominator(l) * Numerator(r)
    IN IF den < 0 THEN Canon(0 - num, 0 - den) ELSE Canon(num, den)

Less(l, r) ==
    /\ ~IsNaN(l)
    /\ ~IsNaN(r)
    /\ l # r
    /\ Numerator(l) * Denominator(r) < Numerator(r) * Denominator(l)
          \/ (IsInfinite(r) /\ Numerator(r) > 0) \/ (IsInfinite(l) /\ Numerator(l) < 0)

isTruthy_zero(v) == v \notin {NilValue, BoolValue(FALSE), NumberValue(0), StringValue(<<>>)}

\* Nil and false are false, every other value is true
isTruthy(v) == v \notin {NilValue, BoolValue(FALSE)}

isEqual(l, r) ==
    IF l = NilValue /\ r = NilValue THEN TRUE
    ELSE IF l = NilValue \/ r = NilValue THEN FALSE
    ELSE IF isNumber(l) /\ isNumber(r) THEN ~IsNaN(l) /\ l = r
    ELSE l = r

plus_coercing(l, r) ==
    IF isNumber(l) /\ isNumber(r) THEN Add(l, r)
    ELSE IF isString(l) /\ isString(r) THEN StringValue(l.s \o r.s)
    ELSE IF isString(l) /\ isNumber(r) THEN StringValue(l.s \o Sprintf(r))
    ELSE IF isNumber(l) /\ isString(r) THEN StringValue(Sprintf(l) \o r.s)
    ELSE RuntimeError(PLUS, IF isNumber(l) \/ isString(l) THEN r ELSE l)

\* binary +: the sum of two numbers, the concatenation of two strings
plus(l, r) ==
    IF isNumber(l) /\ isNumber(r) THEN Add(l, r)
    ELSE IF isString(l) /\ isString(r) THEN StringValue(l.s \o r.s)
    ELSE RuntimeError(PLUS, IF isNumber(l) \/ isString(l) THEN r ELSE l)

\* an operator that takes numbers only
numeric(operator, l, r, result_) ==
    IF ~isNumber(l) THEN RuntimeError(operator, l)
    ELSE IF ~isNumber(r) THEN RuntimeError(operator, r)
    ELSE result_

evaluateUnary(operator, right) ==
    IF Failed(right) THEN right
    ELSE IF operator = BANG THEN BoolValue(~isTruthy(right))
    ELSE IF ~isNumber(right) THEN RuntimeError(operator, right)
    ELSE Negate(right)

evaluateBinary(operator, l, r) ==
    IF Failed(l) THEN l
    ELSE IF Failed(r) THEN r
    ELSE CASE operator = EQUAL_EQUAL -> BoolValue(isEqual(l, r))
           [] operator = BANG_EQUAL -> BoolValue(~isEqual(l, r))
           [] operator = GREATER -> numeric(operator, l, r, BoolValue(Less(r, l)))
           [] operator = GREATER_EQUAL ->
                numeric(operator, l, r,
                        BoolValue(~IsNaN(l) /\ ~IsNaN(r) /\ ~Less(l, r)))
           [] operator = LESS -> numeric(operator, l, r, BoolValue(Less(l, r)))
           [] operator = LESS_EQUAL ->
                numeric(operator, l, r,
                        BoolValue(~IsNaN(l) /\ ~IsNaN(r) /\ ~Less(r, l)))
           [] operator = MINUS -> numeric(operator, l, r, Add(l, Negate(r)))
           [] operator = SLASH -> numeric(operator, l, r, Divide(l, r))
           [] operator = STAR -> numeric(operator, l, r, Multiply(l, r))
           [] operator = PLUS -> plus(l, r)

RECURSIVE evaluateExpr(_)
evaluateExpr(e) ==
    CASE e.node = "Literal" -> e.Value
      [] e.node = "Grouping" -> evaluateExpr(e.Expression)
      [] e.node = "Unary" -> evaluateUnary(e.Operator.Type, evaluateExpr(e.Right))
      [] e.node = "Binary" ->
           evaluateBinary(e.Operator.Type, evaluateExpr(e.Left), evaluateExpr(e.Right))

\* evaluate, on the tree a first Parse returned
evaluate ==
    /\ op = "Parse"
    /\ ops = 1
    /\ status = "returned"
    /\ result # NilExpr
    /\ value = NoValue
    /\ failure = NoFailure
    /\ LET outcome == evaluateExpr(Resolve(result))
       IN IF Failed(outcome)
          THEN value' = NoValue /\ failure' = outcome
          ELSE value' = outcome /\ failure' = NoFailure
    /\ UNCHANGED <<subject, printed, p_status, round, parserVars, lexerVars>>

-----------------------------------------------------------------------------
(* Token slices handed to New.  A lexer always ends its output with EOF;   *)
(* a caller of New may pass any slice, so slices without the marker and    *)
(* the empty slice are included.                                           *)

Sym(t) == Token(t, NilValue)

Num(n) == Token(NUMBER, NumberValue(n))

Str(s) == Token(STRING_, StringValue(s))

\* a token of type t, as the lexer would produce it
Letter(t) ==
    IF t = NUMBER THEN Num(1) ELSE IF t = STRING_ THEN Str(<<"a">>) ELSE Sym(t)

BinaryTypes == equalityTypes \cup comparisonTypes \cup termTypes \cup {SLASH, STAR}

LiteralTypes == {FALSE_, TRUE_, NULL, NUMBER, STRING_}

Alphabet ==
    { Num(1), Sym(LEFT_PAREN), Sym(RIGHT_PAREN), Sym(MINUS), Sym(STAR),
      Sym(EQUAL_EQUAL), Sym(SEMICOLON), Sym(VAR), Sym(EOF) }

SeqsUpTo(S, n) == UNION { [1..k -> S] : k \in 0..n }

WithEOF(s) == Append(s, Sym(EOF))

ShortInputs ==
    SeqsUpTo(Alphabet, MaxLen) \cup { WithEOF(s) : s \in SeqsUpTo(Alphabet, MaxLen) }

OperandStyles == {"number", "string", "true", "false", "null", "group"}

Operand(style, i) ==
    CASE style = "number" -> <<Num(i)>>
      [] style = "string" -> <<Str(<<"a">>)>>
      [] style = "true" -> <<Sym(TRUE_)>>
      [] style = "false" -> <<Sym(FALSE_)>>
      [] style = "null" -> <<Sym(NULL)>>
      [] style = "group" -> <<Sym(LEFT_PAREN), Num(i), Sym(RIGHT_PAREN)>>

RECURSIVE ChainFrom(_, _, _)
ChainFrom(operators, style, i) ==
    IF i > Len(operators)
    THEN Operand(style, i)
    ELSE Operand(style, i) \o <<Sym(operators[i])>> \o ChainFrom(operators, style, i + 1)

ChainInputs ==
    { WithEOF(ChainFrom(operators, style, 1)) :
        operators \in UNION { SeqsUpTo(types, MaxOperands - 1) :
                                types \in {equalityTypes, comparisonTypes, termTypes, factorTypes} },
        style \in OperandStyles }

PrecedenceInputs ==
    { <<Num(1), Sym(p), Num(2), Sym(q), Num(3), Sym(EOF)>> : p \in BinaryTypes, q \in BinaryTypes }
    \cup { <<Sym(u), Num(1), Sym(q), Num(2), Sym(EOF)>> : u \in unaryTypes, q \in BinaryTypes }
    \cup { <<Num(1), Sym(q), Sym(u), Num(2), Sym(EOF)>> : u \in unaryTypes, q \in BinaryTypes }

Repeat(tok, k) == [i \in 1..k |-> tok]

GroupingInputs ==
    { WithEOF(Repeat(Sym(LEFT_PAREN), k) \o e \o Repeat(Sym(RIGHT_PAREN), k)) :
        k \in 1..MaxDepth, e \in { <<Num(1)>>, <<Num(1), Sym(PLUS), Num(2)>> } }
    \cup { <<Sym(LEFT_PAREN), Num(1), Sym(p), Num(2), Sym(RIGHT_PAREN), Sym(q), Num(3), Sym(EOF)>> :
             p \in BinaryTypes, q \in BinaryTypes }

UnaryInputs ==
    { WithEOF([i \in 1..Len(operators) |-> Sym(operators[i])] \o Operand(style, 5)) :
        operators \in SeqsUpTo(unaryTypes, MaxDepth), style \in OperandStyles }

\* one token of every type where an operand is expected
OperandContexts ==
    { <<>>, <<Num(1), Sym(PLUS)>>, <<Sym(LEFT_PAREN)>>,
      <<Sym(LEFT_PAREN), Num(1), Sym(PLUS)>>, <<Sym(BANG)>> }

\* one token of every type where a closing parenthesis is expected
ClosingContexts ==
    { <<Sym(LEFT_PAREN), Num(1)>>,
      <<Sym(LEFT_PAREN), Num(1), Sym(PLUS), Num(2)>>,
      <<Sym(LEFT_PAREN), Sym(LEFT_PAREN), Num(1), Sym(RIGHT_PAREN)>> }

ErrorInputs ==
    { WithEOF(Append(prefix, Letter(t))) :
        prefix \in OperandContexts \cup ClosingContexts, t \in TokenTypes }

TernaryInputs ==
    { <<Sym(TRUE_), Sym(QUESTION), Num(1), Sym(COLON), Num(2), Sym(EOF)>>,
      <<Sym(TRUE_), Sym(QUESTION), Num(1), Sym(COLON), Sym(FALSE_), Sym(QUESTION),
        Num(2), Sym(COLON), Num(3), Sym(EOF)>>,
      <<Sym(FALSE_), Sym(QUESTION), Sym(TRUE_), Sym(QUESTION), Num(1), Sym(COLON),
        Num(2), Sym(COLON), Num(3), Sym(EOF)>>,
      <<Sym(TRUE_), Sym(QUESTION), Num(1), Sym(EOF)>> }

Inputs ==
    ShortInputs \cup ChainInputs \cup PrecedenceInputs \cup GroupingInputs
    \cup UnaryInputs \cup ErrorInputs \cup TernaryInputs

-----------------------------------------------------------------------------
(* Trees handed to Print directly, as the printer tests build them: the    *)
(* operator is a token of its own that has a lexeme and nothing else.      *)

MaxTree == 1

OpToken(lexeme) == [Token("", NilValue) EXCEPT !.Lexeme = lexeme]

Leaves == { Literal(NumberValue(1)), Literal(NilValue), Literal(StringValue(<<"a">>)) }

RECURSIVE TreesUpTo(_)
TreesUpTo(depth) ==
    IF depth = 0 THEN Leaves
    ELSE LET sub == TreesUpTo(depth - 1)
         IN sub
            \cup { Grouping(e) : e \in sub }
            \cup { Unary(OpToken(<<o>>), e) : o \in {"-", "!"}, e \in sub }
            \cup { Binary(l, OpToken(<<o>>), r) : o \in {"+", "*"}, l \in sub, r \in sub }
            \cup { Logical(l, OpToken(o), r) :
                     o \in {<<"a", "n", "d">>, <<"o", "r">>}, l \in sub, r \in sub }

TestTrees ==
    { Binary(Grouping(Binary(Literal(NumberValue(1)), OpToken(<<"+">>), Literal(NumberValue(2)))),
             OpToken(<<"*">>),
             Grouping(Binary(Literal(NumberValue(3)), OpToken(<<"-">>), Literal(NumberValue(4))))),
      Unary(OpToken(<<"-">>), Grouping(Literal(DecimalValue(12345, 2)))),
      Binary(Unary(OpToken(<<"-">>), Literal(NumberValue(123))), OpToken(<<"*">>),
             Grouping(Literal(DecimalValue(4567, 2)))),
      Literal(BoolValue(TRUE)),
      Literal(BoolValue(FALSE)),
      Literal(StringValue(<<>>)) }

Trees == TreesUpTo(MaxTree) \cup TestTrees

-----------------------------------------------------------------------------
(* Source texts handed to lexer.New: every text over SourceAlphabet of at  *)
(* most MaxSrc characters, every character of Characters on its own, every *)
(* keyword, and the texts of ExpressionSources and TestSources.            *)

MaxSrc == 3

SourceAlphabet == {"1", ".", "a", "\"", "/", "*", "\n", "="}

Characters ==
    Digits \cup LowerCase \cup UpperCase \cup
    {"(", ")", "{", "}", ",", ".", "-", "+", ";", "*", "/", "!", "=", "<", ">", "\"",
     " ", "\r", "\t", "\n", "_", "?", ":", "@", "#", "$", "%", "^", "&", "|", "~", "'",
     "[", "]"}

ShortSources == UNION { [1..n -> SourceAlphabet] : n \in 0..MaxSrc }

ExpressionSources ==
    { <<"1", "+", "2">>,
      <<"1", " ", "+", " ", "2", " ", "*", " ", "3">>,
      <<"(", "1", " ", "+", " ", "2", ")", " ", "*", " ", "3">>,
      <<"(", "1", "+", "2", ")", "*", "(", "3", "-", "4", ")">>,
      <<"-", "(", "5", "/", "7", ")">>,
      <<"!", "t", "r", "u", "e">>,
      <<"!", "!", "f", "a", "l", "s", "e">>,
      <<"-", " ", "-", "1">>,
      <<"1", ".", "5">>,
      <<"0", ".", "2", "5">>,
      <<"1", ".", "5", "0">>,
      <<"n", "u", "l", "l">>,
      <<"\"", "a", "b", "\"">>,
      <<"\"", "a", "\"", " ", "+", " ", "\"", "b", "\"">>,
      <<"1", " ", "=", "=", " ", "2", " ", "!", "=", " ", "3">>,
      <<"1", " ", "<", " ", "2", " ", "<", "=", " ", "3">>,
      <<"t", "r", "u", "e", " ", "?", " ", "1", " ", ":", " ", "2">>,
      <<"1", "0", "0", "0", "0", "0", "0">>,
      <<"!", "0">>,
      <<"!", "\"", "\"">>,
      <<"!", "n", "u", "l", "l">>,
      <<"!", "!", "0">>,
      <<"1", " ", "+", " ", "\"", "a", "\"">>,
      <<"\"", "a", "\"", " ", "+", " ", "1">>,
      <<"n", "u", "l", "l", " ", "+", " ", "1">>,
      <<"t", "r", "u", "e", "+", "t", "r", "u", "e">>,
      <<"1", ".", "5", "+", "0", ".", "2", "5">>,
      <<"1", "/", "0">>,
      <<"1", "/", "3">>,
      <<"0", "/", "0", "=", "=", "0", "/", "0">>,
      <<"-", "\"", "a", "\"">>,
      <<"n", "u", "l", "l", "=", "=", "n", "u", "l", "l">>,
      <<"2", ">", "1">>,
      <<"0", ".", "0", "0", "0", "0", "1">>,
      <<"1", "2", "3", "4", "5", "6">>,
      <<"0", ".", "0", "0", "0", "1">>,
      <<"1", "2", ".", "5", "e", "3">>,
      <<"1", " ", "+">>,
      <<"(", "1">>,
      <<"(", ")">>,
      <<"1", " ", "2">>,
      <<"n", "i", "l">>,
      <<"g", "r", "o", "u", "p">>,
      <<"/", "/", " ", "c", "\n", "1">>,
      <<"/", "*", " ", "c", " ", "*", "/", " ", "2">>,
      <<"/", "*", " ", "c">>,
      <<"\"", "a", "b">>,
      <<"1", ";", "v", "a", "r">>,
      <<"a", ".", "b">>,
      <<"1", ".">>,
      <<"x", "_", "1">>,
      <<"_">>,
      <<"1", "0", " ", ">", "=", " ", "9">>,
      <<"9", " ", ">", " ", "1">> }

TestSources ==
    { <<"(", ")", " ", "{", "}", " ", ".", " ", ",", " ", "-", " ", "+", " ", ";", " ", "/", " ", "*", " ", "?", " ", ":">>,
      <<"!", " ", "!", "=", " ", "=", " ", "=", "=", " ", ">", " ", ">", "=", " ", "<", " ", "<", "=">>,
      <<"a", "n", "d", " ", "c", "l", "a", "s", "s", " ", "e", "l", "s", "e", " ", "f", "a", "l", "s", "e", " ", "f", "o", "r", " ", "f", "u", "n", " ", "i", "f", " ", "n", "u", "l", "l", " ", "o", "r", " ", "p", "r", "i", "n", "t", " ", "r", "e", "t", "u", "r", "n", " ", "s", "u", "p", "e", "r", " ", "t", "h", "i", "s", " ", "t", "r", "u", "e", " ", "v", "a", "r", " ", "w", "h", "i", "l", "e">>,
      <<"(", ")", "\n", "{", "}", "\n", "+", "\n", "-">>,
      <<"\"", "a", "\n", "b", "\"", "\n", "1">>,
      <<"/", "*", " ", "a", "\n", "b", " ", "*", "/", "\n", "1">> }

(* A Go string is a sequence of bytes and the lexer indexes it by byte.     *)
(* "C3" and "A9" stand for the two bytes of the UTF-8 encoding of the      *)
(* letter e with an acute accent.                                          *)
EAcute == <<"C3", "A9">>

NonAsciiSources ==
    { EAcute, <<"a">> \o EAcute, <<"1">> \o EAcute \o <<"1">>,
      <<"\"">> \o EAcute \o <<"\"">>, <<"@", "#", "^">> }

\* a numeral too large for a float64
HugeNumeral == [i \in 1..(Float64Digits + 1) |-> "9"]

\* words, numbers, operators and line breaks
LexemeSources ==
    { HugeNumeral, HugeNumeral \o <<".", "5">>,
      <<"c", "l", "a", "s", "s", "y">>,
      <<"c", "l", "a", "s", "s", "1">>,
      <<"_", "c", "l", "a", "s", "s">>,
      <<"C", "l", "a", "s", "s">>,
      <<"v", "a", "r", " ", "x">>,
      <<"o", "r", "c", "h", "i", "d">>,
      <<"o", "r", "_">>,
      <<"n", "u", "l", "l", "n", "u", "l", "l">>,
      <<"i", "f", "(">>,
      <<".", "1", "2", "3", "4">>,
      <<"1", "2", "3", "4", ".">>,
      <<"1", "2", "3">>,
      <<"1", "2", "3", ".", "4", "5">>,
      <<"1", ".", "2", ".", "3">>,
      <<"1", "2", ".", "a">>,
      <<"0", "0", "7">>,
      <<"1", ".", ".", "2">>,
      <<"!", "=", "=">>,
      <<"<", "=", "=">>,
      <<">", "=", "<">>,
      <<"=", "!">>,
      <<"!", "<">>,
      <<"a", "\n", "b">>,
      <<"/", "/", " ", "c", "\n">>,
      <<"\"", "a", "\n", "b", "\"", " ", "c">>,
      <<"/", "*", "\n", "\n", "*", "/", " ", "x", "\n">>,
      <<"/", "*", "\n", "\t", "\t", "\t", "\t", "T", "h", "i", "s", "\n", "\t", "\t", "\t", "\t", "b", "l", "o", "c", "k", "\n", "\t", "\t", "\t", "\t", "*", "/", "\n", "\t", "\t", "\t">>,
      <<"/", "/", " ", "T", "h", "i", "s", " ", "i", "s", " ", "a", "l", "s", "o", " ", "a", " ", "c", "o", "m", "m", "e", "n", "t", "\n">> }

Sources ==
    ShortSources \cup { <<c>> : c \in Characters } \cup DOMAIN Keywords
        \cup ExpressionSources \cup TestSources \cup NonAsciiSources \cup LexemeSources


-----------------------------------------------------------------------------
(* The specification.  A run starts either from a parser built over a      *)
(* token slice (New, parser.go:36-38, as the parser tests do) or from a    *)
(* lexer built over a source text (lexer.New, as the REPL does), whose     *)
(* tokens are then handed to a parser, or from a tree built by hand (as    *)
(* the printer tests do).                                                  *)

ParserStart ==
    /\ current = 0
    /\ stack = <<>>
    /\ ret = NilExpr
    /\ panicking = NoPanic
    /\ result = NilExpr
    /\ raised = NoPanic
    /\ op = "none"
    /\ entry = 0
    /\ ops = 0

PrinterStart ==
    /\ subject = NilExpr
    /\ printed = <<>>
    /\ p_status = "idle"
    /\ round = 0
    /\ value = NoValue
    /\ failure = NoFailure

Init ==
    \/ /\ tokens \in Inputs
       /\ status = "idle"
       /\ ParserStart
       /\ source = <<>>
       /\ Tokens = <<>>
       /\ start = 0
       /\ l_current = 0
       /\ line = 1
       /\ l_status = "none"
       /\ PrinterStart
    \/ /\ source \in Sources
       /\ Tokens = <<>>
       /\ start = 0
       /\ l_current = 0
       /\ line = 1
       /\ l_status = "scanning"
       /\ tokens = <<>>
       /\ status = "none"
       /\ ParserStart
       /\ PrinterStart
    \/ /\ subject \in Trees
       /\ printed = <<>>
       /\ p_status = "given"
       /\ round = 0
       /\ value = NoValue
       /\ failure = NoFailure
       /\ source = <<>>
       /\ Tokens = <<>>
       /\ start = 0
       /\ l_current = 0
       /\ line = 1
       /\ l_status = "none"
       /\ tokens = <<>>
       /\ status = "none"
       /\ ParserStart

Next ==
    \/ Parse
    \/ expression
    \/ equality
    \/ comparison
    \/ term
    \/ factor
    \/ unary
    \/ primary
    \/ synchronize
    \/ scanToken
    \/ ScanTokens
    \/ New
    \/ PrintExpr
    \/ Rescan
    \/ Modify
    \/ evaluate

Spec == Init /\ [][Next]_vars

(* The parser alone: a parser built over a token slice and the calls of    *)
(* Parse made on it.  A call runs to its end on the caller's goroutine:    *)
(* while one is running, its next step is taken.                           *)
ParserInit ==
    /\ tokens \in Inputs
    /\ status = "idle"
    /\ ParserStart
    /\ source = <<>>
    /\ Tokens = <<>>
    /\ start = 0
    /\ l_current = 0
    /\ line = 1
    /\ l_status = "none"
    /\ PrinterStart

ParserNext ==
    \/ Parse
    \/ expression
    \/ equality
    \/ comparison
    \/ term
    \/ factor
    \/ unary
    \/ primary

ParserSpec ==
    ParserInit /\ [][ParserNext]_vars /\ WF_vars(status = "running" /\ ParserNext)

(* The lexer alone: a lexer built over a source and one call of            *)
(* ScanTokens, which runs its loop to the end.                             *)
LexerInit ==
    /\ source \in Sources
    /\ Tokens = <<>>
    /\ start = 0
    /\ l_current = 0
    /\ line = 1
    /\ l_status = "scanning"
    /\ tokens = <<>>
    /\ status = "none"
    /\ ParserStart
    /\ PrinterStart

LexerNext == scanToken \/ ScanTokens

LexerSpec == LexerInit /\ [][LexerNext]_vars /\ WF_vars(LexerNext)

-----------------------------------------------------------------------------
(* Reference trees, written from the grammar and independent of the        *)
(* machine above.                                                          *)

\* Parse, invoked on a fresh parser, has ended
ParseEnded == op = "Parse" /\ entry = 0 /\ ops = 1 /\ status \in {"returned", "panicked"}

EOFTerminated == Len(tokens) > 0 /\ tokens[Len(tokens)].Type = EOF

TypesOf(toks) == [i \in 1..Len(toks) |-> toks[i].Type]

LiteralOf(tok) ==
    CASE tok.Type = FALSE_ -> Literal(BoolValue(FALSE))
      [] tok.Type = TRUE_ -> Literal(BoolValue(TRUE))
      [] tok.Type = NULL -> Literal(NilValue)
      [] OTHER -> Literal(tok.Literal)

NotATree == [node |-> "none"]

\* number of tokens of the simple primary starting at position i (1-based):
\* a literal, or a literal in one pair of parentheses; 0 when there is none
OperandLen(toks, i) ==
    IF i <= Len(toks) /\ toks[i].Type \in LiteralTypes THEN 1
    ELSE IF /\ i + 2 <= Len(toks)
            /\ toks[i].Type = LEFT_PAREN
            /\ toks[i + 1].Type \in LiteralTypes
            /\ toks[i + 2].Type = RIGHT_PAREN
    THEN 3
    ELSE 0

OperandTree(toks, i) ==
    IF OperandLen(toks, i) = 1 THEN LiteralOf(toks[i]) ELSE Grouping(LiteralOf(toks[i + 1]))

\* acc is the tree of toks[1..i-1]; the operator at position i has index i-1
RECURSIVE LeftNest(_, _, _, _)
LeftNest(toks, i, acc, types) ==
    IF i = Len(toks) /\ toks[i].Type = EOF THEN acc
    ELSE IF i < Len(toks) /\ toks[i].Type \in types /\ OperandLen(toks, i + 1) > 0
    THEN LeftNest(toks, i + 1 + OperandLen(toks, i + 1),
                  Binary(acc, i - 1, OperandTree(toks, i + 1)), types)
    ELSE NotATree

\* the left-nested tree of x1 op1 x2 ... xn EOF with every op in types,
\* NotATree when toks is not of that shape
ChainTree(toks, types) ==
    IF OperandLen(toks, 1) > 0
    THEN LeftNest(toks, 1 + OperandLen(toks, 1), OperandTree(toks, 1), types)
    ELSE NotATree

Levels == {equalityTypes, comparisonTypes, termTypes, {SLASH, STAR}}

\* C1: a chain x1 op1 x2 ... xn EOF of primaries joined by operators of one
\* binary level parses, from a fresh parser, to the left-nested tree
\* Binary(Binary(x1,op1,x2),op2,x3)..., each node holding its own operator.
C1_LeftAssociative ==
    \A types \in Levels :
        (ParseEnded /\ ChainTree(tokens, types) # NotATree)
            => (status = "returned" /\ result = ChainTree(tokens, types))

\* a op b op c with two operators of the comparison level has been parsed
\* into a Binary whose left child is a Binary
C1_Witness ==
    /\ ParseEnded
    /\ status = "returned"
    /\ Len(tokens) = 6
    /\ tokens[2].Type \in comparisonTypes
    /\ tokens[4].Type \in comparisonTypes
    /\ tokens[2].Type # tokens[4].Type
    /\ result.node = "Binary"
    /\ result.Operator = 3
    /\ result.Left.node = "Binary"
    /\ result.Left.Operator = 1
    /\ result.Right.node = "Literal"

\* precedence level of a binary operator type, lowest first
Level(t) ==
    CASE t \in {BANG_EQUAL, EQUAL_EQUAL} -> 1
      [] t \in {GREATER, GREATER_EQUAL, LESS, LESS_EQUAL} -> 2
      [] t \in {MINUS, PLUS} -> 3
      [] t \in {SLASH, STAR} -> 4

\* the types of tokens[1..Len(shape)] are drawn from the sets of shape, and
\* nothing follows them
HasShape(shape) ==
    /\ Len(tokens) = Len(shape)
    /\ \A i \in 1..Len(shape) : tokens[i].Type \in shape[i]

\* C2: binary operators bind by level, equality < comparison < term < factor,
\* and prefix operators bind tighter than any binary operator: a p b q c is
\* Binary(a,p,Binary(b,q,c)) when p is lower than q and
\* Binary(Binary(a,p,b),q,c) when p is higher than q.
C2_Precedence ==
    ParseEnded =>
        /\ HasShape(<<LiteralTypes, BinaryTypes, LiteralTypes, BinaryTypes, LiteralTypes, {EOF}>>)
             => /\ status = "returned"
                /\ Level(tokens[2].Type) < Level(tokens[4].Type)
                     => result = Binary(LiteralOf(tokens[1]), 1,
                                        Binary(LiteralOf(tokens[3]), 3, LiteralOf(tokens[5])))
                /\ Level(tokens[2].Type) > Level(tokens[4].Type)
                     => result = Binary(Binary(LiteralOf(tokens[1]), 1, LiteralOf(tokens[3])),
                                        3, LiteralOf(tokens[5]))
        /\ HasShape(<<{BANG, MINUS}, LiteralTypes, BinaryTypes, LiteralTypes, {EOF}>>)
             => /\ status = "returned"
                /\ result = Binary(Unary(0, LiteralOf(tokens[2])), 2, LiteralOf(tokens[4]))
        /\ HasShape(<<LiteralTypes, BinaryTypes, {BANG, MINUS}, LiteralTypes, {EOF}>>)
             => /\ status = "returned"
                /\ result = Binary(LiteralOf(tokens[1]), 1, Unary(2, LiteralOf(tokens[4])))

\* 1 + 2 * 3 has been parsed to Binary(1, +, Binary(2, *, 3))
C2_Witness ==
    /\ ParseEnded
    /\ TypesOf(tokens) = <<NUMBER, PLUS, NUMBER, STAR, NUMBER, EOF>>
    /\ result = Binary(Literal(NumberValue(1)), 1,
                       Binary(Literal(NumberValue(2)), 3, Literal(NumberValue(3))))

RECURSIVE LeadingRun(_, _, _)
\* length of the run of tokens with a type in types that starts at position i
LeadingRun(toks, i, types) ==
    IF i <= Len(toks) /\ toks[i].Type \in types
    THEN 1 + LeadingRun(toks, i + 1, types)
    ELSE 0

RECURSIVE GroupingNest(_, _)
GroupingNest(k, inner) == IF k = 0 THEN inner ELSE Grouping(GroupingNest(k - 1, inner))

\* tokens[from..from+k-1] are all of type t
AllOfType(from, k, t) == \A i \in from..(from + k - 1) : tokens[i].Type = t

\* C3: '(' e ')' parses to Grouping(tree of e) and stands as one operand
\* whatever the operators inside and outside: k nested pairs around a literal
\* or around a op b give exactly k nested Grouping nodes, and (a p b) q c is
\* Binary(Grouping(Binary(a,p,b)), q, c) for all binary operators p and q.
C3_Grouping ==
    ParseEnded =>
        LET k == LeadingRun(tokens, 1, {LEFT_PAREN}) IN
        /\ ( /\ k >= 1
             /\ Len(tokens) = 2 * k + 2
             /\ tokens[k + 1].Type \in LiteralTypes
             /\ AllOfType(k + 2, k, RIGHT_PAREN)
             /\ tokens[2 * k + 2].Type = EOF )
             => /\ status = "returned"
                /\ result = GroupingNest(k, LiteralOf(tokens[k + 1]))
        /\ ( /\ k >= 1
             /\ Len(tokens) = 2 * k + 4
             /\ tokens[k + 1].Type \in LiteralTypes
             /\ tokens[k + 2].Type \in BinaryTypes
             /\ tokens[k + 3].Type \in LiteralTypes
             /\ AllOfType(k + 4, k, RIGHT_PAREN)
             /\ tokens[2 * k + 4].Type = EOF )
             => /\ status = "returned"
                /\ result = GroupingNest(k, Binary(LiteralOf(tokens[k + 1]), k + 1,
                                                   LiteralOf(tokens[k + 3])))
        /\ HasShape(<<{LEFT_PAREN}, LiteralTypes, BinaryTypes, LiteralTypes, {RIGHT_PAREN},
                      BinaryTypes, LiteralTypes, {EOF}>>)
             => /\ status = "returned"
                /\ result = Binary(Grouping(Binary(LiteralOf(tokens[2]), 2, LiteralOf(tokens[4]))),
                                   5, LiteralOf(tokens[7]))

\* (1 + 2) * 3 has been parsed to Binary(Grouping(Binary(1,+,2)), *, 3)
C3_Witness ==
    /\ ParseEnded
    /\ TypesOf(tokens) = <<LEFT_PAREN, NUMBER, PLUS, NUMBER, RIGHT_PAREN, STAR, NUMBER, EOF>>
    /\ result.node = "Binary"
    /\ result.Left = Grouping(Binary(Literal(NumberValue(1)), 2, Literal(NumberValue(2))))
    /\ result.Right = Literal(NumberValue(3))

RECURSIVE UnaryNest(_, _, _)
\* the tree of the prefix operators at positions i..n followed by an operand
UnaryNest(toks, i, n) ==
    IF i > n THEN OperandTree(toks, n + 1) ELSE Unary(i - 1, UnaryNest(toks, i + 1, n))

\* C4: n prefix operators followed by a primary parse to n nested Unary
\* nodes, the first operator outermost and the primary innermost.
C4_UnaryChain ==
    ParseEnded =>
        LET n == LeadingRun(tokens, 1, {BANG, MINUS}) IN
        ( /\ n >= 1
          /\ OperandLen(tokens, n + 1) > 0
          /\ Len(tokens) = n + OperandLen(tokens, n + 1) + 1
          /\ tokens[Len(tokens)].Type = EOF )
          => /\ status = "returned"
             /\ result = UnaryNest(tokens, 1, n)

\* - - - 5 has been parsed to Unary(-, Unary(-, Unary(-, Literal(5))))
C4_Witness ==
    /\ ParseEnded
    /\ TypesOf(tokens) = <<MINUS, MINUS, MINUS, NUMBER, EOF>>
    /\ result = Unary(0, Unary(1, Unary(2, Literal(NumberValue(5)))))

-----------------------------------------------------------------------------
(* Errors.                                                                 *)

\* the deferred function of Parse is about to run with a panic in flight
Unwound == At("Parse") /\ Top.pc = "recover"

\* primary has been entered and the token at the cursor starts no primary
OperandMissing ==
    /\ At("primary")
    /\ Top.pc = "start"
    /\ InRange(current)
    /\ tokens[current + 1].Type \notin {FALSE_, TRUE_, NULL, NUMBER, STRING_, LEFT_PAREN}

ClosingMissing ==
    /\ At("primary")
    /\ Top.pc = "group"
    /\ InRange(current)
    /\ tokens[current + 1].Type # RIGHT_PAREN

\* C6: after '(' and the inner expression, a token at the cursor other than
\* RIGHT_PAREN (EOF included) makes the step panic with the ParseError
\* "Expect ')' after expression." at that token, without producing a
\* Grouping; a Parse that failed with this message reports the token that
\* follows the inner expression.
C6_ExpectClosing ==
    /\ [][ClosingMissing =>
            /\ panicking' = ParseError(current, "Expect ')' after expression.")
            /\ current' = current
            /\ ret' = ret
            /\ Unwound']_vars
    /\ [](status = "panicked" /\ raised.Message = "Expect ')' after expression."
            => /\ raised.Token = current
               /\ InRange(current)
               /\ tokens[current + 1].Type # RIGHT_PAREN
               /\ result = NilExpr)

\* ( 1 + 2 has failed with "Expect ')' after expression." at EOF
C6_Witness ==
    /\ ParseEnded
    /\ TypesOf(tokens) = <<LEFT_PAREN, NUMBER, PLUS, NUMBER, EOF>>
    /\ status = "panicked"
    /\ raised = ParseError(4, "Expect ')' after expression.")
    /\ result = NilExpr

\* C7: once a ParseError is in flight in Parse, at whatever depth it was
\* raised, the next thing that happens is that Parse panics to its caller
\* with that same error, returning no tree and consuming no further token.
C7_ErrorPropagates ==
    [][(status = "running" /\ op = "Parse" /\ panicking.kind = "ParseError")
         => /\ status' = "panicked"
            /\ raised' = panicking
            /\ result' = NilExpr
            /\ current' = current
            /\ stack' = <<>>]_vars

\* an error raised two parentheses and one binary operator deep has reached
\* the caller of Parse
C7_Witness ==
    /\ ParseEnded
    /\ TypesOf(tokens) = <<LEFT_PAREN, LEFT_PAREN, NUMBER, RIGHT_PAREN, SEMICOLON, EOF>>
    /\ status = "panicked"
    /\ raised = ParseError(4, "Expect ')' after expression.")
    /\ result = NilExpr
    /\ current = 4

\* C8 (as claimed): Parse never returns normally after a failure occurred
\* during the derivation.
C8_NoFailureSwallowed ==
    (op = "Parse" /\ status = "returned") => panicking = NoPanic

RECURSIVE FirstEOF(_, _)
\* 0-based index of the first EOF token at or after index i
FirstEOF(toks, i) == IF toks[i + 1].Type = EOF THEN i ELSE FirstEOF(toks, i + 1)

\* C9: on an EOF-terminated slice the cursor never passes the first EOF
\* token, in any state of Parse or synchronize.
C9_CursorBounded ==
    EOFTerminated => (0 <= current /\ current <= FirstEOF(tokens, 0))

\* synchronize was invoked with the cursor on the first EOF, past a first
\* token, and has returned with the cursor where it was
C9_Witness ==
    /\ EOFTerminated
    /\ op = "synchronize"
    /\ status = "returned"
    /\ entry = FirstEOF(tokens, 0)
    /\ entry > 0
    /\ current = entry
    /\ Len(tokens) > entry + 1

\* C10 (as claimed): c ? a : b parses to Ternary(c, a, b), and a ternary in
\* the false or in the true branch nests there.
C10_Ternary ==
    ParseEnded =>
        /\ HasShape(<<LiteralTypes, {QUESTION}, LiteralTypes, {COLON}, LiteralTypes, {EOF}>>)
             => /\ status = "returned"
                /\ result = Ternary(LiteralOf(tokens[1]), LiteralOf(tokens[3]), LiteralOf(tokens[5]))
        /\ HasShape(<<LiteralTypes, {QUESTION}, LiteralTypes, {COLON}, LiteralTypes, {QUESTION},
                      LiteralTypes, {COLON}, LiteralTypes, {EOF}>>)
             => /\ status = "returned"
                /\ result = Ternary(LiteralOf(tokens[1]), LiteralOf(tokens[3]),
                                    Ternary(LiteralOf(tokens[5]), LiteralOf(tokens[7]),
                                            LiteralOf(tokens[9])))
        /\ HasShape(<<LiteralTypes, {QUESTION}, LiteralTypes, {QUESTION}, LiteralTypes, {COLON},
                      LiteralTypes, {COLON}, LiteralTypes, {EOF}>>)
             => /\ status = "returned"
                /\ result = Ternary(LiteralOf(tokens[1]),
                                    Ternary(LiteralOf(tokens[3]), LiteralOf(tokens[5]),
                                            LiteralOf(tokens[7])),
                                    LiteralOf(tokens[9]))

\* C11 (as claimed): with a condition, '?' and a true branch parsed and no
\* COLON at the cursor, Parse fails with the ParseError "Expect ':' after
\* true branch of ternary expression." and returns no tree.
C11_MissingColon ==
    ( /\ ParseEnded
      /\ Len(tokens) >= 4
      /\ tokens[1].Type \in LiteralTypes
      /\ tokens[2].Type = QUESTION
      /\ tokens[3].Type \in LiteralTypes
      /\ tokens[4].Type # COLON
      /\ tokens[Len(tokens)].Type = EOF )
          => /\ status = "panicked"
             /\ raised.Message = "Expect ':' after true branch of ternary expression."
             /\ result = NilExpr

-----------------------------------------------------------------------------
(* synchronize.                                                            *)

\* synchronize, invoked on an EOF-terminated slice, has returned
SynchronizeReturned == op = "synchronize" /\ status = "returned" /\ EOFTerminated

\* the conditions on which synchronize stops with the cursor at index c >= 1
JustPastSemicolon(c) == tokens[c].Type = SEMICOLON

AtStatementKeyword(c) ==
    tokens[c + 1].Type \in {CLASS, FUN, VAR, FOR, IF_, WHILE, PRINT, RETURN}

AtEOF(c) == tokens[c + 1].Type = EOF

Boundary(c) == JustPastSemicolon(c) \/ AtStatementKeyword(c) \/ AtEOF(c)

BoundaryCount(c) ==
    Cardinality({ i \in 1..3 : \/ i = 1 /\ JustPastSemicolon(c)
                               \/ i = 2 /\ AtStatementKeyword(c)
                               \/ i = 3 /\ AtEOF(c) })

\* the cursor after the token under the cursor at entry is discarded; the
\* EOF marker is never discarded
AfterFirstDiscard == IF tokens[entry + 1].Type = EOF THEN entry ELSE entry + 1

\* C12 (as claimed): on return the cursor is past the token that was under
\* it at entry, at the first position where the token just consumed is
\* SEMICOLON, or the token at the cursor is a statement keyword, or the
\* cursor is at EOF, and exactly one of these three conditions holds.
C12_ExactlyOneBoundary ==
    SynchronizeReturned =>
        /\ current >= AfterFirstDiscard
        /\ \A c \in AfterFirstDiscard..(current - 1) : ~Boundary(c)
        /\ BoundaryCount(current) = 1

\* C12 (amended): on return the cursor is past the token that was under it
\* at entry (unless that token is EOF), at the first position where at least
\* one of the three conditions holds; several can hold at once.
C12_FirstBoundary ==
    SynchronizeReturned =>
        /\ current >= AfterFirstDiscard
        /\ \A c \in AfterFirstDiscard..(current - 1) : ~Boundary(c)
        /\ Boundary(current)

\* synchronize has discarded two tokens and stopped just past a semicolon
\* with a statement keyword under the cursor: two conditions hold at once
C12_Witness ==
    /\ SynchronizeReturned
    /\ current = entry + 2
    /\ JustPastSemicolon(current)
    /\ AtStatementKeyword(current)
    /\ BoundaryCount(current) = 2

-----------------------------------------------------------------------------
(* The lexer's output.                                                     *)

Scanned == l_status = "done"

LastToken == Tokens[Len(Tokens)]

\* C18: when ScanTokens has returned on a lexer it was called on once, Tokens
\* is not empty, its last element is an EOF token with the empty lexeme and
\* the nil literal, and no element before it is an EOF token.
C18_EndsWithEOF ==
    Scanned =>
        /\ Len(Tokens) >= 1
        /\ LastToken.Type = EOF
        /\ LastToken.Lexeme = <<>>
        /\ LastToken.Literal = NilValue
        /\ \A i \in 1..(Len(Tokens) - 1) : Tokens[i].Type # EOF

C18_Witness ==
    /\ Scanned
    /\ Len(Tokens) >= 3
    /\ LastToken.Type = EOF
    /\ Tokens[1].Type = IDENTIFIER

\* the 1-based column of the character at 0-based offset o of the source
ColumnOf(o) ==
    LET breaks == { i \in 1..o : source[i] = "\n" }
        lineStart == IF breaks = {} THEN 0 ELSE CHOOSE i \in breaks : \A j \in breaks : j <= i
    IN o - lineStart + 1

OccursAt(lexeme, o) == SubSeq(source, o + 1, o + Len(lexeme)) = lexeme

\* C19 (as claimed): every token of a scanned source carries the 1-based
\* column of the first character of its lexeme, so its lexeme occurs in the
\* source at an offset of that column, and the EOF token carries the column
\* one past the last character.
C19_Column ==
    Scanned =>
        /\ \A i \in 1..(Len(Tokens) - 1) :
              \E o \in 0..(Len(source) - 1) :
                 /\ OccursAt(Tokens[i].Lexeme, o)
                 /\ Tokens[i].Column = ColumnOf(o)
        /\ LastToken.Column = ColumnOf(Len(source))

\* C20 (as claimed): the character ? is scanned to a QUESTION token and the
\* character : to a COLON token.
C20_QuestionColon ==
    Scanned =>
        \A i \in 1..Len(Tokens) :
           /\ Tokens[i].Lexeme = <<"?">> => Tokens[i].Type = QUESTION
           /\ Tokens[i].Lexeme = <<":">> => Tokens[i].Type = COLON

-----------------------------------------------------------------------------
(* The printer's output.                                                   *)

Printed == p_status = "printed"

Space == <<" ">>

\* the rendering the printer is to give, read off the shape of the tree
RECURSIVE Rendering(_)
Rendering(e) ==
    CASE e.node = "Literal" ->
           IF e.Value = NilValue THEN <<"n", "i", "l">> ELSE Sprintf(e.Value)
      [] e.node = "Grouping" ->
           <<"(", "g", "r", "o", "u", "p">> \o Space \o Rendering(e.Expression) \o <<")">>
      [] e.node = "Unary" ->
           <<"(">> \o e.Operator.Lexeme \o Space \o Rendering(e.Right) \o <<")">>
      [] e.node \in {"Binary", "Logical"} ->
           <<"(">> \o e.Operator.Lexeme \o Space \o Rendering(e.Left) \o Space
               \o Rendering(e.Right) \o <<")">>

\* C14: Print renders a tree in fully parenthesised prefix form: a Binary,
\* Unary or Logical node as ( operator-lexeme operands ), a Grouping as
\* (group inner), a Literal as the text of its value and the nil literal as
\* nil.
C14_PrefixForm == Printed => printed = Rendering(subject)

\* (* (group (+ 1 2)) (group (- 3 4))) has been printed for the tree of the
\* printer test
C14_Witness ==
    /\ Printed
    /\ subject.node = "Binary"
    /\ subject.Left.node = "Grouping"
    /\ subject.Right.node = "Grouping"
    /\ printed = <<"(", "*", " ", "(", "g", "r", "o", "u", "p", " ", "(", "+", " ", "1", " ",
                   "2", ")", ")", " ", "(", "g", "r", "o", "u", "p", " ", "(", "-", " ", "3",
                   " ", "4", ")", ")", ")">>

-----------------------------------------------------------------------------
(* Reading a rendering back.                                               *)

\* the parse of the rendering of subject has ended
RoundTripped == round = 1 /\ ParseEnded

\* node kinds, operator types and literal values of a tree
RECURSIVE Shape(_)
Shape(e) ==
    CASE e = NilExpr -> <<"nil">>
      [] e.node = "Literal" -> <<"Literal", e.Value>>
      [] e.node = "Grouping" -> <<"Grouping", Shape(e.Expression)>>
      [] e.node = "Unary" -> <<"Unary", e.Operator.Type, Shape(e.Right)>>
      [] e.node = "Binary" -> <<"Binary", Shape(e.Left), e.Operator.Type, Shape(e.Right)>>

ReadsBack(e) ==
    /\ e.node = "Literal"
    /\ \/ e.Value.kind = "Boolean"
       \/ /\ e.Value.kind = "Number"
          /\ \A i \in 1..Len(printed) : printed[i] # "e"

-----------------------------------------------------------------------------
(* The tree and the token slice.                                           *)

\* C15 (as claimed): the tree a Parse returned shares no storage with the
\* token slice, so a step that leaves the tree's own fields alone leaves
\* everything reachable from it, its operator tokens included, unchanged.
C15_NoAliasing ==
    [][(status = "returned" /\ result' = result) => Resolve(result)' = Resolve(result)]_vars

-----------------------------------------------------------------------------
(* Evaluation.                                                             *)

\* evaluate has ended on the tree the first Parse returned
Evaluated == ParseEnded /\ (value # NoValue \/ failure # NoFailure)

Evaluand == Resolve(result)

IsNot(e) == e.node = "Unary" /\ e.Operator.Type = BANG

IsLiteral(e) == e.node = "Literal"

\* the two values that count as false
Falsey == {NilValue, BoolValue(FALSE)}

\* C16: ! applied to a literal evaluates to true when the literal is nil or
\* false and to false for every other literal, the number 0 and the empty
\* string included; !! gives the opposite; neither fails.
C16_Truthiness ==
    (Evaluated /\ IsNot(Evaluand)) =>
        /\ IsLiteral(Evaluand.Right) =>
              /\ failure = NoFailure
              /\ value = BoolValue(Evaluand.Right.Value \in Falsey)
        /\ (IsNot(Evaluand.Right) /\ IsLiteral(Evaluand.Right.Right)) =>
              /\ failure = NoFailure
              /\ value = BoolValue(Evaluand.Right.Right.Value \notin Falsey)

\* !0 has been evaluated to false
C16_Witness ==
    /\ Evaluated
    /\ IsNot(Evaluand)
    /\ Evaluand.Right = Literal(NumberValue(0))
    /\ value = BoolValue(FALSE)

IsPlus(e) == e.node = "Binary" /\ e.Operator.Type = PLUS

Scale(v) == IF "e" \in DOMAIN v THEN v.e ELSE 0

\* the number v is the sum of the decimal literals l and r
IsSum(v, l, r) ==
    /\ v.kind = "Number"
    /\ DOMAIN v \subseteq {"kind", "n", "e"}
    /\ v.n * Pow10(Scale(l) + Scale(r))
          = (l.n * Pow10(Scale(r)) + r.n * Pow10(Scale(l))) * Pow10(Scale(v))

\* C17: + applied to two literals evaluates to the sum when both are
\* numbers and to the concatenation when both are strings; for every other
\* pair evaluate fails with a runtime error and returns no value.
C17_Plus ==
    (Evaluated /\ IsPlus(Evaluand) /\ IsLiteral(Evaluand.Left) /\ IsLiteral(Evaluand.Right)) =>
        LET l == Evaluand.Left.Value
            r == Evaluand.Right.Value
        IN IF l.kind = "Number" /\ r.kind = "Number"
           THEN failure = NoFailure /\ IsSum(value, l, r)
           ELSE IF l.kind = "String" /\ r.kind = "String"
           THEN failure = NoFailure /\ value = StringValue(l.s \o r.s)
           ELSE /\ value = NoValue
                /\ failure.kind = "RuntimeError"
                /\ failure.Operator = PLUS

\* 1 + "a" has failed
C17_Witness ==
    /\ Evaluated
    /\ IsPlus(Evaluand)
    /\ Evaluand.Left = Literal(NumberValue(1))
    /\ Evaluand.Right = Literal(StringValue(<<"a">>))
    /\ value = NoValue
    /\ failure.kind = "RuntimeError"

-----------------------------------------------------------------------------
(* Lexical errors.                                                         *)

\* a scanToken call is about to run
Scanning == l_status = "scanning" /\ ~l_isAtEnd(l_current)

\* the two bytes at the cursor, or the one that is left
Pair(cur) == SubSeq(source, cur + 1, IF cur + 2 <= Len(source) THEN cur + 2 ELSE Len(source))

\* the character that starts at the cursor: one byte, or the bytes of EAcute
CharacterAt(cur) == IF Pair(cur) = EAcute THEN EAcute ELSE <<source[cur + 1]>>

\* the characters the language gives a meaning to (? and : are the subject
\* of C20 and are left out of both sides here)
Recognized ==
    Digits \cup LowerCase \cup UpperCase \cup
    {"_", "(", ")", "{", "}", ",", ".", "-", "+", ";", "*", "/", "!", "=", "<", ">", "\"",
     " ", "\r", "\t", "\n"}

Unrecognized(c) == c = EAcute \/ c[1] \notin (Recognized \cup {"?", ":"})

Rest(cur) == SubSeq(source, cur + 1, Len(source))

UnterminatedString(cur) ==
    source[cur + 1] = "\"" /\ \A i \in (cur + 2)..Len(source) : source[i] # "\""

UnterminatedBlockComment(cur) ==
    /\ Pair(cur) = <<"/", "*">>
    /\ \A i \in (cur + 3)..(Len(source) - 1) : SubSeq(source, i, i + 1) # <<"*", "/">>

\* the step added exactly one token, an ILLEGAL one with this lexeme
OneIllegal(lexeme) ==
    /\ Len(Tokens') = Len(Tokens) + 1
    /\ SubSeq(Tokens', 1, Len(Tokens)) = Tokens
    /\ Tokens'[Len(Tokens')].Type = ILLEGAL
    /\ Tokens'[Len(Tokens')].Lexeme = lexeme

\* C21 (as claimed): a scanToken call at an unrecognized character adds one
\* ILLEGAL token whose lexeme is that character and moves past it; at the
\* opening of an unterminated string or block comment it adds one ILLEGAL
\* token whose lexeme is the rest of the input; and scanning goes on.
C21_IllegalTokens ==
    [][Scanning =>
         /\ l_status' = "scanning"
         /\ Unrecognized(CharacterAt(l_current)) =>
               /\ OneIllegal(CharacterAt(l_current))
               /\ l_current' = l_current + Len(CharacterAt(l_current))
         /\ (UnterminatedString(l_current) \/ UnterminatedBlockComment(l_current)) =>
               /\ OneIllegal(Rest(l_current))
               /\ l_current' = Len(source)]_vars

-----------------------------------------------------------------------------
(* Words.                                                                  *)

WordStart == LowerCase \cup UpperCase \cup {"_"}

WordCharacters == WordStart \cup Digits

\* the end of the longest run of characters of set that starts at cur
RunEnd(cur, set) ==
    CHOOSE end \in cur..Len(source) :
        /\ \A i \in (cur + 1)..end : source[i] \in set
        /\ end = Len(source) \/ source[end + 1] \notin set

\* the 16 reserved words and their types
Reserved ==
    { <<<<"a", "n", "d">>, AND>>, <<<<"c", "l", "a", "s", "s">>, CLASS>>,
      <<<<"e", "l", "s", "e">>, ELSE_>>, <<<<"f", "a", "l", "s", "e">>, FALSE_>>,
      <<<<"f", "o", "r">>, FOR>>, <<<<"f", "u", "n">>, FUN>>, <<<<"i", "f">>, IF_>>,
      <<<<"n", "u", "l", "l">>, NULL>>, <<<<"o", "r">>, OR>>,
      <<<<"p", "r", "i", "n", "t">>, PRINT>>, <<<<"r", "e", "t", "u", "r", "n">>, RETURN>>,
      <<<<"s", "u", "p", "e", "r">>, SUPER>>, <<<<"t", "h", "i", "s">>, THIS>>,
      <<<<"t", "r", "u", "e">>, TRUE_>>, <<<<"v", "a", "r">>, VAR>>,
      <<<<"w", "h", "i", "l", "e">>, WHILE>> }

WordType(text) ==
    IF \E r \in Reserved : r[1] = text
    THEN (CHOOSE r \in Reserved : r[1] = text)[2]
    ELSE IDENTIFIER

\* the step added exactly this token, whatever its line and column
OneToken(type, lexeme, literal) ==
    /\ Len(Tokens') = Len(Tokens) + 1
    /\ SubSeq(Tokens', 1, Len(Tokens)) = Tokens
    /\ Tokens'[Len(Tokens')].Type = type
    /\ Tokens'[Len(Tokens')].Lexeme = lexeme
    /\ Tokens'[Len(Tokens')].Literal = literal

\* C22: a scanToken call at a letter or underscore adds one token for the
\* longest run of letters, digits and underscores that starts there: of the
\* reserved type when the run is one of the 16 reserved words, IDENTIFIER
\* otherwise, with the nil literal, and moves to the end of the run.
C22_Words ==
    [][(Scanning /\ source[l_current + 1] \in WordStart) =>
         LET end == RunEnd(l_current, WordCharacters)
             text == SubSeq(source, l_current + 1, end)
         IN /\ OneToken(WordType(text), text, NilValue)
            /\ l_current' = end]_vars

\* classy has been scanned to one IDENTIFIER
C22_Witness ==
    /\ Scanned
    /\ source = <<"c", "l", "a", "s", "s", "y">>
    /\ Len(Tokens) = 2
    /\ Tokens[1].Type = IDENTIFIER
    /\ Tokens[1].Lexeme = source
    /\ Tokens[1].Literal = NilValue

-----------------------------------------------------------------------------
(* Numbers.                                                                *)

\* the natural number a run of digits writes
RECURSIVE Numeral(_)
Numeral(text) ==
    IF text = <<>> THEN 0
    ELSE (CHOOSE d \in 0..9 : Chars(d) = Head(text)) * Pow10(Len(text) - 1) + Numeral(Tail(text))

\* where the number literal that starts at cur ends: after the longest run
\* of digits, and after a point and a further run when a digit follows it
NumberEnd(cur) ==
    LET whole == RunEnd(cur, Digits)
    IN IF whole + 2 <= Len(source) /\ source[whole + 1] = "." /\ source[whole + 2] \in Digits
       THEN RunEnd(whole + 1, Digits)
       ELSE whole

\* v is the value of the number literal text
IsValueOf(v, text) ==
    LET points == { i \in 1..Len(text) : text[i] = "." }
        whole == IF points = {} THEN text ELSE SubSeq(text, 1, (CHOOSE i \in points : TRUE) - 1)
        fraction == SubSeq(text, Len(whole) + 2, Len(text))
    IN /\ v.kind = "Number"
       /\ DOMAIN v \subseteq {"kind", "n", "e"}
       /\ v.n * Pow10(Len(fraction)) = Numeral(whole \o fraction) * Pow10(Scale(v))

NoPointAtEdge(toks) ==
    \A i \in 1..Len(toks) :
       toks[i].Type = NUMBER =>
          toks[i].Lexeme[1] # "." /\ toks[i].Lexeme[Len(toks[i].Lexeme)] # "."

LastAdded == Tokens'[Len(Tokens')]

\* C23 (as claimed): a scanToken call at a digit adds one NUMBER token for
\* the longest run of digits, with a point and further digits when they
\* follow, whose literal is the value of that text; no NUMBER lexeme starts
\* or ends with a point.
C23_Numbers ==
    [][(Scanning /\ source[l_current + 1] \in Digits) =>
         LET end == NumberEnd(l_current)
             text == SubSeq(source, l_current + 1, end)
         IN /\ Len(Tokens') = Len(Tokens) + 1
            /\ LastAdded.Type = NUMBER
            /\ LastAdded.Lexeme = text
            /\ IsValueOf(LastAdded.Literal, text)
            /\ l_current' = end
            /\ NoPointAtEdge(Tokens')]_vars

\* the whole part of text, without leading zeros, has more digits than any
\* float64
OutOfRange(text) ==
    \E i \in 1..Len(text) :
       /\ text[i] \in Digits \ {"0"}
       /\ \A j \in 1..i : text[j] # "."
       /\ \A j \in i..(i + Float64Digits) : j <= Len(text) /\ text[j] \in Digits

\* C23 (amended): as C23, for a text whose value a float64 can hold; for a
\* text whose value is out of range the call adds one ILLEGAL token with
\* that text as lexeme and the nil literal.
C23_NumbersInRange ==
    [][(Scanning /\ source[l_current + 1] \in Digits) =>
         LET end == NumberEnd(l_current)
             text == SubSeq(source, l_current + 1, end)
         IN /\ IF OutOfRange(text)
               THEN OneToken(ILLEGAL, text, NilValue)
               ELSE /\ OneToken(NUMBER, text, LastAdded.Literal)
                    /\ IsValueOf(LastAdded.Literal, text)
            /\ l_current' = end
            /\ NoPointAtEdge(Tokens')]_vars

\* 1234. has been scanned to the number 1234 and a DOT
C23_Witness ==
    /\ Scanned
    /\ source = <<"1", "2", "3", "4", ".">>
    /\ Len(Tokens) = 3
    /\ Tokens[1].Type = NUMBER
    /\ Tokens[1].Lexeme = <<"1", "2", "3", "4">>
    /\ Tokens[1].Literal = NumberValue(1234)
    /\ Tokens[2].Type = DOT

-----------------------------------------------------------------------------
(* Lines.                                                                  *)

\* the number of newline characters among the first n of the source
NewlinesBefore(n) == Cardinality({ i \in 1..n : source[i] = "\n" })

\* C24: a token added while the source is scanned has as Line 1 plus the
\* number of newlines before the end of its lexeme, which is where the
\* cursor stands when it is added, whether they are in line ends, block
\* comments or strings; the EOF token has 1 plus the number of newlines of
\* the whole source.
C24_Lines ==
    [][(l_status = "scanning" /\ Len(Tokens') = Len(Tokens) + 1) =>
          /\ LastAdded.Line = 1 + NewlinesBefore(l_current')
          /\ LastAdded.Type = EOF => LastAdded.Line = 1 + NewlinesBefore(Len(source))]_vars

\* the block comment of four lines has been scanned: EOF is on line 5
C24_Witness ==
    /\ Scanned
    /\ Len(source) > 3
    /\ SubSeq(source, 1, 3) = <<"/", "*", "\n">>
    /\ NewlinesBefore(Len(source)) = 4
    /\ Len(Tokens) = 1
    /\ Tokens[1].Type = EOF
    /\ Tokens[1].Line = 5

-----------------------------------------------------------------------------
(* Operators of one or two characters.                                     *)

\* the token types of ! = < > alone and followed by =
Munch ==
    { <<"!", BANG, BANG_EQUAL>>, <<"=", EQUAL, EQUAL_EQUAL>>,
      <<"<", LESS, LESS_EQUAL>>, <<">", GREATER, GREATER_EQUAL>> }

\* C25: a scanToken call at ! = < or > followed by = adds the one token of
\* two characters and moves the cursor over both; followed by anything else,
\* or by nothing, it adds the token of one character and moves the cursor
\* over one.
C25_MaximalMunch ==
    [][\A m \in Munch :
         (Scanning /\ source[l_current + 1] = m[1]) =>
            IF Pair(l_current) = <<m[1], "=">>
            THEN /\ OneToken(m[3], <<m[1], "=">>, NilValue)
                 /\ l_current' = l_current + 2
            ELSE /\ OneToken(m[2], <<m[1]>>, NilValue)
                 /\ l_current' = l_current + 1]_vars

\* !== has been scanned to != and =
C25_Witness ==
    /\ Scanned
    /\ source = <<"!", "=", "=">>
    /\ Len(Tokens) = 3
    /\ Tokens[1].Type = BANG_EQUAL
    /\ Tokens[1].Lexeme = <<"!", "=">>
    /\ Tokens[2].Type = EQUAL
    /\ Tokens[2].Lexeme = <<"=">>

-----------------------------------------------------------------------------
(* Termination of Parse.                                                   *)

ParseRunning == op = "Parse" /\ status = "running" /\ EOFTerminated

\* C26: on an EOF-terminated slice a running Parse ends, having returned a
\* tree or raised a ParseError; each of its steps leaves the cursor or moves
\* it one token on, never past the first EOF, so that it advances at most
\* once per token before EOF.
C26_Terminates ==
    /\ [][ParseRunning =>
            /\ current' \in {current, current + 1}
            /\ current' <= FirstEOF(tokens, 0)]_vars
    /\ ParseRunning ~>
         /\ op = "Parse"
         /\ \/ status = "returned" /\ panicking = NoPanic /\ result # NilExpr
            \/ status = "panicked" /\ raised.kind = "ParseError"

\* Parse has returned a tree after it advanced over each of the five tokens
\* before EOF
C26_Witness ==
    /\ ParseEnded
    /\ EOFTerminated
    /\ status = "returned"
    /\ result # NilExpr
    /\ Len(tokens) = 6
    /\ current = 5

-----------------------------------------------------------------------------
(* The end of the input.                                                   *)

\* C27 (as claimed): when Parse returns a tree on an EOF-terminated slice
\* the cursor is on the EOF token: no token is left unconsumed.
C27_AllConsumed ==
    (op = "Parse" /\ status = "returned" /\ panicking = NoPanic /\ EOFTerminated) =>
        /\ InRange(current)
        /\ TokenAt(current).Type = EOF

-----------------------------------------------------------------------------
(* The tokens of a tree.                                                   *)

OperandTypes == {FALSE_, TRUE_, NULL, NUMBER, STRING_}

HasType(i, types) == InRange(i) /\ TokenAt(i).Type \in types

(* Reading the tokens from index i on as the in-order yield of the tree e: *)
(* the index after the last token of the yield, or -1 when the tokens at i *)
(* are not the yield of e.  A Literal yields the one token it was made     *)
(* from, a Unary its operator and its operand, a Binary its left operand,  *)
(* its operator and its right operand, a Grouping its inner expression in  *)
(* parentheses.                                                            *)
RECURSIVE YieldEnd(_, _)
YieldEnd(e, i) ==
    IF i < 0 THEN -1
    ELSE CASE e.node = "Literal" ->
                IF HasType(i, OperandTypes) /\ LiteralOf(TokenAt(i)) = e THEN i + 1 ELSE -1
           [] e.node = "Unary" ->
                IF HasType(i, unaryTypes) /\ e.Operator = i
                THEN YieldEnd(e.Right, i + 1)
                ELSE -1
           [] e.node = "Binary" ->
                LET j == YieldEnd(e.Left, i)
                IN IF HasType(j, equalityTypes \cup comparisonTypes \cup termTypes \cup factorTypes)
                      /\ e.Operator = j
                   THEN YieldEnd(e.Right, j + 1)
                   ELSE -1
           [] e.node = "Grouping" ->
                LET j == IF HasType(i, {LEFT_PAREN}) THEN YieldEnd(e.Expression, i + 1) ELSE -1
                IN IF HasType(j, {RIGHT_PAREN}) THEN j + 1 ELSE -1
           [] OTHER -> -1

ParseSucceeded == ParseEnded /\ status = "returned" /\ panicking = NoPanic

\* C28: when Parse has returned a tree with the cursor at k, the tokens
\* before k, read in order from the first, are the in-order yield of the
\* tree, each operator node pointing to the operator token at its place.
C28_Yield == ParseSucceeded => YieldEnd(result, 0) = current

\* ( 1 p 2 ) q 3 has been parsed: seven tokens in a tree of two operators
\* and a grouping
C28_Witness ==
    /\ ParseSucceeded
    /\ current = 7
    /\ result.node = "Binary"
    /\ result.Operator = 5
    /\ result.Left.node = "Grouping"
    /\ result.Left.Expression.node = "Binary"
    /\ result.Left.Expression.Operator = 2
    /\ YieldEnd(result, 0) = 7

-----------------------------------------------------------------------------
(* Token accesses.                                                         *)

\* C29 (as claimed): on an EOF-terminated slice no call of Parse or
\* synchronize, in any order, makes peek or previous index the slice outside
\* of it: no call ends in the runtime panic of such an access.
C29_AccessInRange == EOFTerminated => panicking # RuntimePanic

-----------------------------------------------------------------------------
(* The cursor of the lexer.                                                *)

\* C30: ScanTokens ends for every source; start and the cursor stay in
\* order within the source; every scanToken call moves the cursor on by at
\* least one character from where it set start, and the token it adds, if
\* any, is not EOF and has as lexeme the characters between the two, at
\* least one: the lexemes follow each other in the source without overlap.
C30_Cursor ==
    /\ [][/\ 0 <= start /\ start <= l_current /\ l_current <= Len(source)
          /\ 0 <= start' /\ start' <= l_current' /\ l_current' <= Len(source)]_vars
    /\ [][Scanning =>
            /\ start' = l_current
            /\ l_current' > l_current
            /\ l_current' <= Len(source)
            /\ \/ Tokens' = Tokens
               \/ /\ Len(Tokens') = Len(Tokens) + 1
                  /\ SubSeq(Tokens', 1, Len(Tokens)) = Tokens
                  /\ LastAdded.Type # EOF
                  /\ LastAdded.Lexeme # <<>>
                  /\ LastAdded.Lexeme = SubSeq(source, start' + 1, l_current')]_vars
    /\ (l_status = "scanning") ~> (l_status = "done")

\* a source of a string over two lines, a space and a word has been scanned
\* to the end: the last token before EOF is the word
C30_Witness ==
    /\ Scanned
    /\ source = <<"\"", "a", "\n", "b", "\"", " ", "c">>
    /\ l_current = Len(source)
    /\ start = 6
    /\ Len(Tokens) = 3
    /\ Tokens[1].Lexeme = SubSeq(source, 1, 5)
    /\ Tokens[2].Lexeme = <<"c">>

====
